---- MODULE Spec2Model ----
(***************************************************************************)
(* Verification model of research-task-mcp-server.                         *)
(*                                                                         *)
(* Part 1 (SpecRL): one RateLimiter (src/src/rate-limiter.ts) and a finite *)
(* set of callers of waitIfNeeded() under a discrete clock.  JavaScript    *)
(* runs every synchronous stretch of code to completion, so the body of    *)
(* waitIfNeeded from "const now = Date.now()" to either the push or the    *)
(* "await" on the timer is one action; a timer wake-up followed by the     *)
(* recursive call is one action as well (the continuation of the awaited   *)
(* promise runs in the same turn of the event loop).                       *)
(***************************************************************************)
EXTENDS Integers, Sequences, FiniteSets, TLC

(***************************************************************************)
(* Bounds of the model.                                                    *)
(***************************************************************************)
NumCallers == 3
MaxRequests == 2
windowMs == 1000
MaxCallTime == 1100

\* rate-limiter.ts:22, "+ 100; // Add 100ms buffer"
Buffer == 100

\* Amounts by which the clock advances between two turns of the event loop.
TickSteps == {500, 600}
MaxStep == CHOOSE d \in TickSteps : \A e \in TickSteps : e <= d

Callers == 1..NumCallers

\* Part 2: concurrent operations that call the completion service.
NumProcs == 2

Procs == 1..NumProcs

\* The objects that construct a RateLimiter of their own: ConfigurationWizard,
\* FlexibleResearchAgent, QualityReviewAgent, FlexibleSynthesisAgent.
Components == {"wizard", "research", "quality", "synthesis"}

\* The operations that call the completion service ("summarize" is
\* synthesizeFindings with the output format 'executive_summary' or
\* 'synthesis', which adds generateExecutiveSummary).
Kinds == {"start", "continue", "dimensions", "unit", "review", "synthesize", "summarize"}

\* The component whose limiter and client an operation uses.
CompOf(kind) ==
  CASE kind \in {"start", "continue", "dimensions"} -> "wizard"
    [] kind = "unit" -> "research"
    [] kind = "review" -> "quality"
    [] kind \in {"synthesize", "summarize"} -> "synthesis"

\* What an operation awaits, in program order: "admit" is
\* "await this.rateLimiter.waitIfNeeded()", "call" is
\* "await this.anthropic.messages.create(...)".

\* ConfigurationWizard.startConfiguration
ScriptStart == <<"admit", "call">>

\* ConfigurationWizard.continueConfiguration: the response, then the extraction
ScriptContinue == <<"admit", "call", "call">>

\* ConfigurationWizard.generateCustomDimensions
ScriptDimensions == <<"admit", "call">>

\* FlexibleResearchAgent.performResearch, then parseResearchResults
ScriptUnit == <<"admit", "call", "admit", "call">>

\* QualityReviewAgent.reviewResearch, then parseQualityReview
ScriptReview == <<"admit", "call", "admit", "call">>

\* FlexibleSynthesisAgent.synthesizeFindings, then parseSynthesis
ScriptSynthesize == <<"admit", "call", "admit", "call">>

\* ... followed by generateExecutiveSummary
ScriptSummarize == ScriptSynthesize \o <<"admit", "call">>

Script(kind) ==
  CASE kind = "start" -> ScriptStart
    [] kind = "continue" -> ScriptContinue
    [] kind = "dimensions" -> ScriptDimensions
    [] kind = "unit" -> ScriptUnit
    [] kind = "review" -> ScriptReview
    [] kind = "synthesize" -> ScriptSynthesize
    [] kind = "summarize" -> ScriptSummarize

\* Part 3: the units of a research task.
MaxUnits == 3

Units == 1..MaxUnits

\* index.ts:314, "maxAgents = 5"; flexible-research-manager.ts:180
DefaultMaxAgents == 5

\* The values of request.maxAgents that are tried; none is rejected by the
\* tool handler or by runFlexibleResearch.
CapValues == {-1, 0, 1, 2, DefaultMaxAgents}

\* The clock of SpecSys runs long enough for one admission timer to fire.
SysHorizon == windowMs + Buffer + MaxStep

\* A caller suspends at most once per admission of another caller, plus once.
MaxWaits == NumCallers + 1

\* Every waitIfNeeded() call issued up to MaxCallTime has returned by Horizon:
\* a caller suspends at most NumCallers times, each time for at most
\* windowMs + Buffer, and a due timer fires before the clock moves on.
Horizon == MaxCallTime + NumCallers * (windowMs + Buffer + MaxStep)

\* Part 4: the legacy workflow.  The units one initializeSubagents call
\* creates, the calls of runSubagentResearch that overlap or follow each other
\* on one task, and the calls of initializeSubagents on it.
MaxLegacyUnits == 2

LegacyUnits == 1..MaxLegacyUnits

MaxRuns == 2

Runs == 1..MaxRuns

MaxGens == 2

\* The attempts of one performResearch that are followed: the completion
\* service answers rate_limit to at most MaxAttempts - 1 of them in a row.
MaxAttempts == 3

\* Part 5: the configuration sessions.  The sessions that are started, the
\* tool calls in progress at the same time, and the tool calls in all.
MaxSessions == 2

SessionIds == 1..MaxSessions

NumSessProcs == 2

SessProcs == 1..NumSessProcs

MaxOps == 3

VARIABLES
  now,           \* Date.now()
  maxRequests,   \* RateLimiter.maxRequests, set by the constructor
  requestTimes,  \* RateLimiter.requestTimes
  pc,            \* per caller: "idle", "waiting" (suspended in setTimeout), "admitted"
  wakeAt,        \* per caller: the instant its setTimeout is due
  callAt,        \* per caller: the instant it called waitIfNeeded (-1: not yet)
  waits,         \* per caller: how many times it has suspended
  admitted,      \* history of recorded admissions: [caller, at, seen]
  \* Part 2: the call sites of the completion service
  limiterTimes,  \* per component: the requestTimes of its own RateLimiter
  opKind,        \* per process: the operation it runs ("none" before it starts)
  opState,       \* per process: "none", "waiting", "calling", "done", "failed"
  opPos,         \* per process: index in the operation's script of the pending step
  opWakeAt,      \* per process: the instant its admission timer is due
  grants,        \* history of admissions of all limiters: [by, comp, at]
  calls,         \* history of completion-service calls: [by, comp, at]
  \* Part 3: FlexibleResearchManager.runFlexibleResearch
  numDimensions, \* config.dimensions.length of the stored configuration
  executionMode, \* request.executionMode
  maxConcurrent, \* request.maxAgents as received by runParallelResearch
  includeQualityReview, \* request.includeQualityReview
  subAgents,     \* the units of the task: sequence of [status, results]
  agentPc,       \* per unit: the await performResearch is suspended at
  runPc,         \* the await runFlexibleResearch is suspended at
  idx,           \* parallel: the loop variable i; sequential: the current unit
  batch,         \* parallel: the units of the current slice
  taskStatus,    \* task.status
  outcome,       \* per unit: what the completion service did to it
  structuredText, \* per unit: the kind of text the structuring call returned
  unitCalls,     \* per unit: completion-service calls issued for it
  slices,        \* parallel: how many slices the loop has taken
  pauses,        \* parallel: how many pauses between slices have begun
  syntheses,     \* "stored" once the synthesis of the task is in the map, else "none"
  \* Part 4: ResearchTaskManager (the legacy workflow)
  legacyTask,    \* task.status of the legacy task ("none": not created)
  legacyGen,     \* how many times initializeSubagents has stored an array
  legacySubAgents, \* this.subAgents.get(taskId): sequence of [id, status, results]
  legacyRun,     \* per call of runSubagentResearch: [mode, gen, state]
  legacyPc,      \* per call and unit: the await performResearch is suspended at
  legacyAttempts, \* per call and unit: attempts of the messages.create in progress
  legacySyntheses, \* "stored" once this.syntheses holds a synthesis of the task
  legacyCall,    \* the last synthesizeFindings or getOpportunityRecommendation:
                 \* [op, stage, error, agents]
  \* Part 5: ConfigurationWizard and the configurations of the manager
  conversations, \* ConfigurationWizard.conversations: session id -> ConversationState
  known,         \* the session ids that startConfiguration has returned
  configs,       \* FlexibleResearchManager.configs, in order of storing
  sessOp,        \* per tool call in progress: [op, sid, stage, admits, calls, error, complete]
  opCount,       \* how many tool calls have begun
  \* Part 6: suggestTemplate
  description,   \* the argument of suggestTemplate: the words of the text
  suggested,     \* what suggestTemplate returned ("pending": not called yet)
  \* Part 7: the CallToolRequestSchema handler
  toolCall,      \* the request and what the manager does with it: [name, hasArguments, outcome]
  toolStage,     \* "pending", "awaiting" (the manager operation), "responded", "threw"
  toolResponse   \* the text of the response, in two parts

clockVars == <<now, maxRequests>>

rlVars == <<requestTimes, pc, wakeAt, callAt, waits, admitted>>

sysVars == <<limiterTimes, opKind, opState, opPos, opWakeAt, grants, calls>>

batchVars == <<numDimensions, executionMode, maxConcurrent, includeQualityReview,
               subAgents, agentPc, runPc, idx, batch, taskStatus, outcome,
               structuredText, unitCalls, slices, pauses, syntheses>>

legacyVars == <<legacyTask, legacyGen, legacySubAgents, legacyRun, legacyPc,
                legacyAttempts, legacySyntheses, legacyCall>>

sessVars == <<conversations, known, configs, sessOp, opCount>>

hintVars == <<description, suggested>>

toolVars == <<toolCall, toolStage, toolResponse>>

vars == <<clockVars, rlVars, sysVars, batchVars, legacyVars, sessVars, hintVars, toolVars>>

\* The state outside each part of the model.
OutsideRL == <<sysVars, batchVars, legacyVars, sessVars, hintVars, toolVars>>

OutsideSys == <<rlVars, batchVars, legacyVars, sessVars, hintVars, toolVars>>

OutsideBatch == <<clockVars, rlVars, sysVars, legacyVars, sessVars, hintVars, toolVars>>

OutsideLegacy == <<clockVars, rlVars, sysVars, batchVars, sessVars, hintVars, toolVars>>

OutsideSess == <<clockVars, rlVars, sysVars, batchVars, legacyVars, hintVars, toolVars>>

OutsideHint == <<clockVars, rlVars, sysVars, batchVars, legacyVars, sessVars, toolVars>>

OutsideTool == <<clockVars, rlVars, sysVars, batchVars, legacyVars, sessVars, hintVars>>

(***************************************************************************)
(* RateLimiter                                                             *)
(***************************************************************************)

\* this.requestTimes.filter(time => now - time < this.windowMs)
PurgeNothing(times, t) == times

PurgeInclusive(times, t) == SelectSeq(times, LAMBDA time : t - time <= windowMs)

Purge(times, t) == SelectSeq(times, LAMBDA time : t - time < windowMs)

\* if (this.requestTimes.length >= this.maxRequests)
LimitReachedOffByOne(live) == Len(live) > maxRequests

LimitReached(live) == Len(live) >= maxRequests

\* const waitTime = this.windowMs - (now - oldestRequest) + 100
WaitTimeBufferOnly(oldestRequest, t) == Buffer

WaitTime(oldestRequest, t) == windowMs - (t - oldestRequest) + Buffer

\* this.requestTimes.push(now)
RecordOnCopy(live, t) == live

Record(live, t) == Append(live, t)

\* The synchronous body of waitIfNeeded() on a limiter whose requestTimes is
\* "times", at clock value t: the purged window, then either the suspension
\* (with the delay of the timer) or the recorded admission.
Decision(times, t) ==
  LET live == Purge(times, t) IN
  IF LimitReached(live)
  THEN LET oldestRequest == live[1]
           waitTime == WaitTime(oldestRequest, t)
       IN [admit |-> FALSE, times |-> live, waitTime |-> waitTime, seen |-> Len(live)]
  ELSE [admit |-> TRUE, times |-> Record(live, t), waitTime |-> 0, seen |-> Len(live)]

\* waitIfNeeded() run by caller c of the single limiter of SpecRL.
WaitIfNeeded(c) ==
  LET d == Decision(requestTimes, now) IN
  /\ requestTimes' = d.times
  /\ IF d.admit
     THEN /\ pc' = [pc EXCEPT ![c] = "admitted"]
          /\ admitted' = Append(admitted, [caller |-> c, at |-> now, seen |-> d.seen])
          /\ UNCHANGED <<wakeAt, waits>>
     ELSE /\ pc' = [pc EXCEPT ![c] = "waiting"]
          /\ wakeAt' = [wakeAt EXCEPT ![c] = now + d.waitTime]
          /\ waits' = [waits EXCEPT ![c] = IF @ < MaxWaits THEN @ + 1 ELSE @]
          /\ UNCHANGED admitted

\* A caller invokes waitIfNeeded().  Callers are interchangeable, so they are
\* numbered in the order in which they call.
Call(c) ==
  /\ pc[c] = "idle"
  /\ \A b \in Callers : b < c => pc[b] # "idle"
  /\ now <= MaxCallTime
  /\ callAt' = [callAt EXCEPT ![c] = now]
  /\ WaitIfNeeded(c)
  /\ UNCHANGED <<clockVars, OutsideRL>>

\* The timer of a suspended caller fires and the caller re-enters by
\* "return this.waitIfNeeded()".
WakeNoRecheck(c) ==
  /\ pc[c] = "waiting"
  /\ now >= wakeAt[c]
  /\ requestTimes' = Record(requestTimes, now)
  /\ pc' = [pc EXCEPT ![c] = "admitted"]
  /\ admitted' = Append(admitted,
        [caller |-> c, at |-> now, seen |-> Len(Purge(requestTimes, now))])
  /\ UNCHANGED <<clockVars, wakeAt, waits, callAt, OutsideRL>>

Wake(c) ==
  /\ pc[c] = "waiting"
  /\ now >= wakeAt[c]
  /\ WaitIfNeeded(c)
  /\ UNCHANGED <<clockVars, callAt, OutsideRL>>

\* The clock advances; a timer that is due fires before it advances again.
Tick(d) ==
  /\ now + d <= Horizon
  /\ \A c \in Callers : pc[c] = "waiting" => now < wakeAt[c]
  /\ now' = now + d
  /\ UNCHANGED <<maxRequests, rlVars, OutsideRL>>

\* The clock and the limit every RateLimiter is constructed with.
InitClock ==
  /\ now = 0
  /\ maxRequests \in 1..MaxRequests

\* No caller of the single limiter of SpecRL.
IdleRL ==
  /\ requestTimes = <<>>
  /\ pc = [c \in Callers |-> "idle"]
  /\ wakeAt = [c \in Callers |-> 0]
  /\ callAt = [c \in Callers |-> -1]
  /\ waits = [c \in Callers |-> 0]
  /\ admitted = <<>>

\* No operation in progress at any call site.
IdleSys ==
  /\ limiterTimes = [comp \in Components |-> <<>>]
  /\ opKind = [p \in Procs |-> "none"]
  /\ opState = [p \in Procs |-> "none"]
  /\ opPos = [p \in Procs |-> 0]
  /\ opWakeAt = [p \in Procs |-> 0]
  /\ grants = <<>>
  /\ calls = <<>>

\* No run of runFlexibleResearch in progress.
IdleBatch ==
  /\ executionMode = "parallel"
  /\ maxConcurrent = DefaultMaxAgents
  /\ includeQualityReview = TRUE
  /\ subAgents = <<>>
  /\ agentPc = [u \in Units |-> "idle"]
  /\ runPc = "idle"
  /\ idx = 0
  /\ batch = {}
  /\ taskStatus = "none"
  /\ outcome = [u \in Units |-> "none"]
  /\ structuredText = [u \in Units |-> "none"]
  /\ unitCalls = [u \in Units |-> 0]
  /\ slices = 0
  /\ pauses = 0
  /\ syntheses = "none"

\* A ConfigurationWizard and a manager as constructed: no session, no
\* configuration, no tool call in progress.
NoOp ==
  [op |-> "none", sid |-> 0, stage |-> "idle", admits |-> 0, calls |-> 0,
   error |-> "none", complete |-> FALSE]

IdleSess ==
  /\ conversations = <<>>
  /\ known = {}
  /\ configs = <<>>
  /\ sessOp = [p \in SessProcs |-> NoOp]
  /\ opCount = 0

\* No tool request has arrived.
NoOutcome == [kind |-> "notCalled", message |-> "none"]

IdleTool ==
  /\ toolCall = [name |-> "none", hasArguments |-> FALSE, outcome |-> NoOutcome]
  /\ toolStage = "pending"
  /\ toolResponse = <<>>

\* suggestTemplate has not been called.
IdleHint == description = {} /\ suggested = "pending"

\* No synthesizeFindings and no getOpportunityRecommendation has been called.
NoLegacyCall == [op |-> "none", stage |-> "idle", error |-> "none", agents |-> 0]

\* A ResearchTaskManager as constructed: no task, no subagents, no run.
IdleLegacy ==
  /\ legacyTask = "none"
  /\ legacyGen = 0
  /\ legacySubAgents = <<>>
  /\ legacyRun = [r \in Runs |-> [mode |-> "parallel", gen |-> 0, state |-> "idle"]]
  /\ legacyPc = [r \in Runs |-> [u \in LegacyUnits |-> "idle"]]
  /\ legacyAttempts = [r \in Runs |-> [u \in LegacyUnits |-> 0]]
  /\ legacySyntheses = "none"
  /\ legacyCall = NoLegacyCall

InitRL == InitClock /\ IdleRL /\ IdleSys /\ IdleBatch /\ IdleLegacy /\ IdleSess /\ IdleHint /\ IdleTool /\ numDimensions = 0

NextRL ==
  \/ \E c \in Callers : Call(c)
  \/ \E c \in Callers : Wake(c)
  \/ \E d \in TickSteps : Tick(d)

SpecRL == InitRL /\ [][NextRL]_vars

\* Timers eventually fire and the clock keeps running.
LiveSpecRL ==
  /\ SpecRL
  /\ \A c \in Callers : WF_vars(Wake(c))
  /\ WF_vars(\E d \in TickSteps : Tick(d))

(***************************************************************************)
(* Part 2 (SpecSys): the call sites of the completion service.  Every      *)
(* process runs one operation; an operation runs synchronously up to its   *)
(* next await.  A granted admission is followed in the same turn of the    *)
(* event loop by the call it gates, and the answer of the completion       *)
(* service resumes the operation up to its next await.                     *)
(***************************************************************************)

\* Process p issues a call to the completion service at script position i.
IssueCall(p, kind, i) ==
  /\ calls' = Append(calls, [by |-> p, comp |-> CompOf(kind), at |-> now])
  /\ opState' = [opState EXCEPT ![p] = "calling"]
  /\ opPos' = [opPos EXCEPT ![p] = i]

\* Process p reaches "await this.rateLimiter.waitIfNeeded()" at script
\* position i: the limiter of its component decides; when the admission is
\* granted the gated call (position i + 1) is issued at once.
AdmitStep(p, kind, i) ==
  LET comp == CompOf(kind)
      d == Decision(limiterTimes[comp], now)
  IN /\ limiterTimes' = [limiterTimes EXCEPT ![comp] = d.times]
     /\ IF d.admit
        THEN /\ grants' = Append(grants, [by |-> p, comp |-> comp, at |-> now])
             /\ IssueCall(p, kind, i + 1)
             /\ UNCHANGED opWakeAt
        ELSE /\ opState' = [opState EXCEPT ![p] = "waiting"]
             /\ opPos' = [opPos EXCEPT ![p] = i]
             /\ opWakeAt' = [opWakeAt EXCEPT ![p] = now + d.waitTime]
             /\ UNCHANGED <<grants, calls>>

\* An operation starts (processes are numbered in the order in which they
\* start): startConfiguration, continueConfiguration,
\* generateCustomDimensions, performResearch, reviewResearch or
\* synthesizeFindings, each of which first awaits its limiter.
Begin(p, kind) ==
  /\ opState[p] = "none"
  /\ \A q \in Procs : q < p => opState[q] # "none"
  /\ opKind' = [opKind EXCEPT ![p] = kind]
  /\ AdmitStep(p, kind, 1)
  /\ UNCHANGED <<clockVars, OutsideSys>>

\* The admission timer of a suspended operation fires.
WakeOp(p) ==
  /\ opState[p] = "waiting"
  /\ now >= opWakeAt[p]
  /\ AdmitStep(p, opKind[p], opPos[p])
  /\ UNCHANGED <<clockVars, opKind, OutsideSys>>

\* The completion service answers the pending call of p; on success the
\* operation goes on to its next step, on failure the error ends it.
Respond(p, ok) ==
  /\ opState[p] = "calling"
  /\ LET kind == opKind[p]
         next == opPos[p] + 1
     IN IF ~ok
        THEN /\ opState' = [opState EXCEPT ![p] = "failed"]
             /\ UNCHANGED <<limiterTimes, opPos, opWakeAt, grants, calls>>
        ELSE IF next > Len(Script(kind))
        THEN /\ opState' = [opState EXCEPT ![p] = "done"]
             /\ UNCHANGED <<limiterTimes, opPos, opWakeAt, grants, calls>>
        ELSE IF Script(kind)[next] = "call"
        THEN /\ IssueCall(p, kind, next)
             /\ UNCHANGED <<limiterTimes, opWakeAt, grants>>
        ELSE AdmitStep(p, kind, next)
  /\ UNCHANGED <<clockVars, opKind, OutsideSys>>

\* The clock advances; a timer that is due fires before it advances again.
SysTick(d) ==
  /\ now + d <= SysHorizon
  /\ \A p \in Procs : opState[p] = "waiting" => now < opWakeAt[p]
  /\ now' = now + d
  /\ UNCHANGED <<maxRequests, sysVars, OutsideSys>>

InitSys == InitClock /\ IdleRL /\ IdleSys /\ IdleBatch /\ IdleLegacy /\ IdleSess /\ IdleHint /\ IdleTool /\ numDimensions = 0

NextSys ==
  \/ \E p \in Procs : \E kind \in Kinds : Begin(p, kind)
  \/ \E p \in Procs : WakeOp(p)
  \/ \E p \in Procs : \E ok \in BOOLEAN : Respond(p, ok)
  \/ \E d \in TickSteps : SysTick(d)

SpecSys == InitSys /\ [][NextSys]_vars

(***************************************************************************)
(* Part 3 (SpecBatch): FlexibleResearchManager.runFlexibleResearch on a    *)
(* stored configuration.  One action is one turn of the event loop: the    *)
(* answer of the completion service resumes performResearch, and when that *)
(* settles the unit, the continuations of Promise.all and of the loop run  *)
(* in the same turn.  The RateLimiter of the research agent is represented *)
(* by what SpecRL establishes of it: waitIfNeeded() returns, at a moment   *)
(* of the limiter's choosing (action Admitted).                            *)
(***************************************************************************)

Terminal(status) == status \in {"completed", "failed"}

\* Array.prototype.slice: a negative index counts from the end, and indices
\* are clamped to [0, len].
SliceIndex(n, len) ==
  IF n < 0 THEN (IF len + n < 0 THEN 0 ELSE len + n)
           ELSE (IF n > len THEN len ELSE n)

\* subAgents.slice(from, to), as the set of the positions (from 1) it holds.
Slice(from, to, len) ==
  {u \in 1..len : SliceIndex(from, len) < u /\ u <= SliceIndex(to, len)}

\* The loop variable i of runParallelResearch.  With maxConcurrent < 0 it
\* decreases for ever; every slice taken at a negative i is empty, so the
\* model keeps i at -MaxUnits once it gets there.
LoopIndex(i) == IF i < -MaxUnits THEN -MaxUnits ELSE i

\* The slices taken by the loop of runParallelResearch are counted up to
\* MaxUnits + 1: for maxConcurrent >= 1 there are at most MaxUnits, and for
\* maxConcurrent <= 0 the loop takes slices for ever.
CountSlice(n) == IF n > MaxUnits THEN n ELSE n + 1

\* The pauses are counted like the slices.
CountPause(n) == IF n > MaxUnits THEN n ELSE n + 1

\* "agent.results" of a unit that has none.
NoResults == [findings |-> "none", confidence |-> 0, parseError |-> FALSE]

\* DimensionResults.confidence in hundredths: "structured.confidence || 0.7"
\* and the "confidence: 0.6" of the fallback structure.
DefaultConfidence == 70

FallbackConfidence == 60

\* The kinds of text a structuring call returns: a JSON object with the
\* requested fields; another JSON value without them (a string, a number, an
\* array, "{}"); the JSON text "null"; text that JSON.parse rejects.
StructureTexts == {"object", "value", "null", "text"}

\* The try/catch of parseResearchResults: JSON.parse(text) and the result
\* built from it.  A JSON value without the fields takes the "||" defaults,
\* reading a property of null throws inside the try like JSON.parse does.
ParseResearchResults(text) ==
  CASE text = "object" -> [findings |-> "structured", confidence |-> 90, parseError |-> FALSE]
    [] text = "value" -> [findings |-> "raw", confidence |-> DefaultConfidence, parseError |-> FALSE]
    [] text \in {"null", "text"} ->
         [findings |-> "raw", confidence |-> FallbackConfidence, parseError |-> TRUE]

\* The state runFlexibleResearch works on, as one record.
Current ==
  [sa |-> subAgents, apc |-> agentPc, rpc |-> runPc, i |-> idx, b |-> batch,
   sl |-> slices, pz |-> pauses]

Apply(o) ==
  /\ subAgents' = o.sa
  /\ agentPc' = o.apc
  /\ runPc' = o.rpc
  /\ idx' = o.i
  /\ batch' = o.b
  /\ slices' = o.sl
  /\ pauses' = o.pz

\* agent.status = 'running' and the call of performResearch, which runs up to
\* "await this.rateLimiter.waitIfNeeded()", for the units in S.
Launch(o, S) ==
  [o EXCEPT !.sa = [u \in DOMAIN o.sa |->
                      IF u \in S THEN [o.sa[u] EXCEPT !.status = "running"] ELSE o.sa[u]],
            !.apc = [u \in Units |-> IF u \in S THEN "waitResearch" ELSE o.apc[u]]]

\* runParallelResearch or runSequentialResearch has returned: the results are
\* collected and reviewResearch (if requested) or synthesizeFindings is awaited.
AfterBatch(o, qr) ==
  [o EXCEPT !.rpc = IF qr THEN "review" ELSE "synthesis", !.b = {}]

\* After "await Promise.all(...)": the pause before the next slice, or, as
\* i + maxConcurrent >= length ends the loop, the return.
AfterSliceAlwaysPause(o, m, qr) ==
  [o EXCEPT !.rpc = "pause", !.pz = CountPause(o.pz)]

AfterSlice(o, m, qr) ==
  IF o.i + m < Len(o.sa)
  THEN [o EXCEPT !.rpc = "pause", !.pz = CountPause(o.pz)]
  ELSE AfterBatch([o EXCEPT !.i = o.i + m], qr)

\* The for loop of runParallelResearch entered with loop variable i.
ParallelFrom(o, i, m, qr) ==
  IF i < Len(o.sa)
  THEN LET slice == Slice(i, i + m, Len(o.sa)) IN
       [Launch(o, slice) EXCEPT !.rpc = "slice", !.i = i, !.b = slice,
                                !.sl = CountSlice(o.sl)]
  ELSE AfterBatch([o EXCEPT !.i = i], qr)

\* The for loop of runSequentialResearch arrived at unit j.
SeqAllAtOnce(o, j, qr) ==
  IF j <= Len(o.sa)
  THEN [Launch(o, j..Len(o.sa)) EXCEPT !.rpc = "seq", !.i = j, !.b = {}]
  ELSE AfterBatch([o EXCEPT !.i = j], qr)

SeqFrom(o, j, qr) ==
  IF j <= Len(o.sa)
  THEN [Launch(o, {j}) EXCEPT !.rpc = "seq", !.i = j, !.b = {}]
  ELSE AfterBatch([o EXCEPT !.i = j], qr)

\* "agent.results = await performResearch(...); agent.status = 'completed'"
Completed(o, u, results) ==
  [o EXCEPT !.sa[u] = [status |-> "completed", results |-> results],
            !.apc[u] = "done"]

\* "catch (error) { agent.status = 'failed'; ... }"
Uncaught(o, u) == [o EXCEPT !.rpc = "aborted", !.apc[u] = "done"]

CaughtWithResults(o, u) ==
  [o EXCEPT !.sa[u] = [status |-> "failed", results |-> ParseResearchResults("text")],
            !.apc[u] = "done"]

Caught(o, u) == [o EXCEPT !.sa[u].status = "failed", !.apc[u] = "done"]

\* "await Promise.all(batch.map(...))" resolves.
SliceRaced(sa, slice) == \E v \in slice : Terminal(sa[v].status)

SliceSettled(sa, slice) == \A v \in slice : Terminal(sa[v].status)

\* What runs after a unit has settled: the next unit in sequential mode, the
\* continuation of Promise.all in parallel mode once the slice has settled.
Resume(o, mode, m, qr) ==
  IF o.rpc = "seq" THEN SeqFrom(o, o.i + 1, qr)
  ELSE IF o.rpc = "slice" /\ SliceSettled(o.sa, o.b) THEN AfterSlice(o, m, qr)
  ELSE o

\* The tool call runFlexibleResearch up to "await
\* this.createResearchTaskFromConfig(...)": the task and its units are stored,
\* all pending.
RunFlexibleResearch(mode, m, qr) ==
  /\ runPc = "idle"
  /\ mode = "sequential" => m = DefaultMaxAgents
  /\ executionMode' = mode
  /\ maxConcurrent' = m
  /\ includeQualityReview' = qr
  /\ taskStatus' = "pending"
  /\ subAgents' = [u \in 1..numDimensions |-> [status |-> "pending", results |-> NoResults]]
  /\ runPc' = "created"
  /\ UNCHANGED <<numDimensions, agentPc, idx, batch, outcome, structuredText, unitCalls,
                 slices, pauses, syntheses, OutsideBatch>>

\* createResearchTaskFromConfig has returned: task.status = 'in_progress',
\* then the chosen runner up to its first await.
TaskCreated ==
  /\ runPc = "created"
  /\ taskStatus' = "in_progress"
  /\ Apply(IF executionMode = "parallel"
           THEN ParallelFrom(Current, 0, maxConcurrent, includeQualityReview)
           ELSE SeqFrom(Current, 1, includeQualityReview))
  /\ UNCHANGED <<numDimensions, executionMode, maxConcurrent, includeQualityReview,
                 outcome, structuredText, unitCalls, syntheses, OutsideBatch>>

\* waitIfNeeded() returns to performResearch or to parseResearchResults of
\* unit u, which issues the call it gates.
Admitted(u) ==
  /\ u \in DOMAIN subAgents
  /\ agentPc[u] \in {"waitResearch", "waitStructure"}
  /\ agentPc' = [agentPc EXCEPT ![u] =
                   IF @ = "waitResearch" THEN "research" ELSE "structure"]
  /\ unitCalls' = [unitCalls EXCEPT ![u] = @ + 1]
  /\ UNCHANGED <<numDimensions, executionMode, maxConcurrent, includeQualityReview,
                 subAgents, runPc, idx, batch, taskStatus, outcome, structuredText,
                 slices, pauses, syntheses, OutsideBatch>>

\* The research call of unit u is answered: parseResearchResults goes on to
\* its own waitIfNeeded(), or the error reaches the catch of the runner.
ResearchAnswered(u, ok) ==
  /\ u \in DOMAIN subAgents
  /\ agentPc[u] = "research"
  /\ IF ok
     THEN /\ agentPc' = [agentPc EXCEPT ![u] = "waitStructure"]
          /\ UNCHANGED <<subAgents, runPc, idx, batch, outcome, slices, pauses>>
     ELSE /\ outcome' = [outcome EXCEPT ![u] = "fail"]
          /\ Apply(Resume(Caught(Current, u),
                          executionMode, maxConcurrent, includeQualityReview))
  /\ UNCHANGED <<numDimensions, executionMode, maxConcurrent, includeQualityReview,
                 taskStatus, structuredText, unitCalls, syntheses, OutsideBatch>>

\* The structuring call of unit u is answered with a text, from which
\* parseResearchResults builds the results of the unit, or with an error,
\* which reaches the catch of the runner.
StructureAnswered(u, answer) ==
  /\ u \in DOMAIN subAgents
  /\ agentPc[u] = "structure"
  /\ outcome' = [outcome EXCEPT ![u] = IF answer = "error" THEN "fail" ELSE "ok"]
  /\ structuredText' = [structuredText EXCEPT ![u] = answer]
  /\ LET o == IF answer = "error"
              THEN Caught(Current, u)
              ELSE Completed(Current, u, ParseResearchResults(answer))
     IN Apply(Resume(o, executionMode, maxConcurrent, includeQualityReview))
  /\ UNCHANGED <<numDimensions, executionMode, maxConcurrent, includeQualityReview,
                 taskStatus, unitCalls, syntheses, OutsideBatch>>

\* "await Promise.all([])": the promise of an empty slice is resolved from the
\* start and the runner resumes in a turn of its own.
EmptySliceSettled ==
  /\ runPc = "slice"
  /\ batch = {}
  /\ Apply(AfterSlice(Current, maxConcurrent, includeQualityReview))
  /\ UNCHANGED <<numDimensions, executionMode, maxConcurrent, includeQualityReview,
                 taskStatus, outcome, structuredText, unitCalls, syntheses, OutsideBatch>>

\* The setTimeout(resolve, 2000) between two slices fires: i += maxConcurrent.
PauseOver ==
  /\ runPc = "pause"
  /\ Apply(ParallelFrom(Current, LoopIndex(idx + maxConcurrent),
                        maxConcurrent, includeQualityReview))
  /\ UNCHANGED <<numDimensions, executionMode, maxConcurrent, includeQualityReview,
                 taskStatus, outcome, structuredText, unitCalls, syntheses, OutsideBatch>>

\* reviewResearch settles; its error leaves runFlexibleResearch.
ReviewAnswered(ok) ==
  /\ runPc = "review"
  /\ runPc' = IF ok THEN "synthesis" ELSE "threw"
  /\ UNCHANGED <<numDimensions, executionMode, maxConcurrent, includeQualityReview,
                 subAgents, agentPc, idx, batch, taskStatus, outcome, structuredText,
                 unitCalls, slices, pauses, syntheses, OutsideBatch>>

\* "task.status = 'completed'" of runFlexibleResearch.
TaskStatusCompletedOnError(ok, status) == "completed"

TaskStatusAfter(ok, status) == IF ok THEN "completed" ELSE status

\* "this.syntheses.set(task.id, synthesis)" of runFlexibleResearch.
SynthesesAfter(ok, stored) == IF ok THEN "stored" ELSE stored

\* synthesizeFindings settles: task.status = 'completed', the synthesis is
\* stored and the run returns, or its error leaves runFlexibleResearch.
SynthesisAnswered(ok) ==
  /\ runPc = "synthesis"
  /\ runPc' = IF ok THEN "returned" ELSE "threw"
  /\ taskStatus' = TaskStatusAfter(ok, taskStatus)
  /\ syntheses' = SynthesesAfter(ok, syntheses)
  /\ UNCHANGED <<numDimensions, executionMode, maxConcurrent, includeQualityReview,
                 subAgents, agentPc, idx, batch, outcome, structuredText, unitCalls,
                 slices, pauses, OutsideBatch>>

InitBatch ==
  /\ now = 0
  /\ maxRequests = 1
  /\ IdleRL /\ IdleSys /\ IdleBatch /\ IdleLegacy /\ IdleSess /\ IdleHint /\ IdleTool
  /\ numDimensions \in 0..MaxUnits

NextBatch ==
  \/ \E mode \in {"parallel", "sequential"} : \E m \in CapValues : \E qr \in BOOLEAN :
       RunFlexibleResearch(mode, m, qr)
  \/ TaskCreated
  \/ \E u \in Units : Admitted(u)
  \/ \E u \in Units : \E ok \in BOOLEAN : ResearchAnswered(u, ok)
  \/ \E u \in Units : \E answer \in StructureTexts \cup {"error"} : StructureAnswered(u, answer)
  \/ EmptySliceSettled
  \/ PauseOver
  \/ \E ok \in BOOLEAN : ReviewAnswered(ok)
  \/ \E ok \in BOOLEAN : SynthesisAnswered(ok)

SpecBatch == InitBatch /\ [][NextBatch]_vars

\* The limiter admits (C5), the completion service answers and timers fire.
LiveSpecBatch ==
  /\ SpecBatch
  /\ WF_vars(TaskCreated)
  /\ \A u \in Units : WF_vars(Admitted(u))
  /\ \A u \in Units : WF_vars(\E ok \in BOOLEAN : ResearchAnswered(u, ok))
  /\ \A u \in Units :
       WF_vars(\E answer \in StructureTexts \cup {"error"} : StructureAnswered(u, answer))
  /\ WF_vars(EmptySliceSettled)
  /\ WF_vars(PauseOver)
  /\ WF_vars(\E ok \in BOOLEAN : ReviewAnswered(ok))
  /\ WF_vars(\E ok \in BOOLEAN : SynthesisAnswered(ok))

(***************************************************************************)
(* Part 4: ResearchTaskManager, the legacy workflow on one task.           *)
(* runSubagentResearch maps an async function over the stored units; each  *)
(* invocation of it runs at once up to the first await of performResearch.  *)
(* A call in progress when initializeSubagents replaces the array goes on  *)
(* working on the units it was started with, which the manager no longer   *)
(* holds: it is "detached" and not followed further.                       *)
(***************************************************************************)

\* createResearchTask
CreateResearchTask ==
  /\ legacyTask = "none"
  /\ legacyTask' = "pending"
  /\ UNCHANGED <<legacyGen, legacySubAgents, legacyRun, legacyPc, legacyAttempts,
                 legacySyntheses, legacyCall, OutsideLegacy>>

\* initializeSubagents with k subagents: fresh units, all pending, replace the
\* stored array.
InitializeSubagents(k) ==
  /\ legacyTask # "none"
  /\ legacyGen < MaxGens
  /\ legacyGen' = legacyGen + 1
  /\ legacySubAgents' =
       [u \in 1..k |-> [id |-> legacyGen + 1, status |-> "pending", results |-> FALSE]]
  /\ legacyTask' = "in_progress"
  /\ legacyRun' = [r \in Runs |->
        IF legacyRun[r].state = "running"
        THEN [legacyRun[r] EXCEPT !.state = "detached"] ELSE legacyRun[r]]
  /\ legacyPc' = [r \in Runs |->
        IF legacyRun[r].state = "running"
        THEN [u \in LegacyUnits |-> "idle"] ELSE legacyPc[r]]
  /\ legacyAttempts' = [r \in Runs |->
        IF legacyRun[r].state = "running"
        THEN [u \in LegacyUnits |-> 0] ELSE legacyAttempts[r]]
  /\ UNCHANGED <<legacySyntheses, legacyCall, OutsideLegacy>>

\* The stored units after the statement "agent.status = status" (and
\* "agent.results = results" when has is TRUE) of call r on unit u.
LegacySet(r, u, status, has) ==
  [legacySubAgents EXCEPT ![u] =
     [@ EXCEPT !.status = status, !.results = IF has THEN TRUE ELSE @]]

\* "if (!subAgents) throw" of runSubagentResearch and synthesizeFindings:
\* this.subAgents has an entry for the task once initializeSubagents has run.
NoSubagents(gen) == gen = 0

\* runSubagentResearch: the throw when no subagents are stored; else
\* "subAgents.map(async (agent) => ...)" sets every unit running and starts
\* its performResearch, in either execution mode.
RunSubagentResearch(r, mode) ==
  /\ legacyRun[r].state = "idle"
  /\ \A q \in Runs : q < r => legacyRun[q].state # "idle"
  /\ IF NoSubagents(legacyGen)
     THEN /\ legacyRun' = [legacyRun EXCEPT ![r] =
                [mode |-> mode, gen |-> legacyGen, state |-> "threw"]]
          /\ UNCHANGED <<legacySubAgents, legacyPc>>
     ELSE /\ legacySubAgents' =
               [u \in DOMAIN legacySubAgents |->
                  [legacySubAgents[u] EXCEPT !.status = "running"]]
          /\ legacyPc' = [legacyPc EXCEPT ![r] =
                [u \in LegacyUnits |->
                   IF u \in DOMAIN legacySubAgents THEN "wait" ELSE "idle"]]
          /\ legacyRun' = [legacyRun EXCEPT ![r] =
                [mode |-> mode, gen |-> legacyGen,
                 state |-> IF legacySubAgents = <<>> THEN "returned" ELSE "running"]]
  /\ UNCHANGED <<legacyTask, legacyGen, legacyAttempts, legacySyntheses, legacyCall,
                 OutsideLegacy>>

\* waitIfNeeded() returns to performResearch of unit u in call r.
LegacyAdmitted(r, u) ==
  /\ legacyPc[r][u] = "wait"
  /\ legacyPc' = [legacyPc EXCEPT ![r][u] = "call"]
  /\ legacyAttempts' = [legacyAttempts EXCEPT ![r][u] = @ + 1]
  /\ UNCHANGED <<legacyTask, legacyGen, legacySubAgents, legacyRun, legacySyntheses, legacyCall, OutsideLegacy>>

\* Every promise of call r has settled: Promise.all, or the loop over the
\* promises, is over and runSubagentResearch returns.
LegacySettled(lpc, r) == \A v \in LegacyUnits : lpc[r][v] \in {"idle", "done"}

\* messages.create of unit u in call r is answered: the unit is completed
\* with results, the rate_limit error starts the 10 s backoff, or another
\* error reaches the catch of runSubagentResearch.
LegacyAnswered(r, u, answer) ==
  /\ legacyPc[r][u] = "call"
  /\ answer = "rate_limit" => legacyAttempts[r][u] < MaxAttempts
  /\ IF answer = "rate_limit"
     THEN /\ legacyPc' = [legacyPc EXCEPT ![r][u] = "backoff"]
          /\ UNCHANGED <<legacySubAgents, legacyRun, legacyAttempts>>
     ELSE /\ legacyPc' = [legacyPc EXCEPT ![r][u] = "done"]
          /\ legacyAttempts' = [legacyAttempts EXCEPT ![r][u] = 0]
          /\ legacySubAgents' =
               LegacySet(r, u, IF answer = "ok" THEN "completed" ELSE "failed", answer = "ok")
          /\ legacyRun' = [legacyRun EXCEPT ![r].state =
                             IF LegacySettled(legacyPc', r) THEN "returned" ELSE @]
  /\ UNCHANGED <<legacyTask, legacyGen, legacySyntheses, legacyCall, OutsideLegacy>>

\* The backoff timer fires: "return this.performResearch(...)", which runs up
\* to its waitIfNeeded().
LegacyBackoffOver(r, u) ==
  /\ legacyPc[r][u] = "backoff"
  /\ legacyPc' = [legacyPc EXCEPT ![r][u] = "wait"]
  /\ UNCHANGED <<legacyTask, legacyGen, legacySubAgents, legacyRun, legacyAttempts,
                 legacySyntheses, legacyCall, OutsideLegacy>>

\* "subAgents.filter(a => a.status === 'completed')"
AllAgents(sa) == DOMAIN sa

CompletedAgents(sa) == {u \in DOMAIN sa : sa[u].status = "completed"}

\* A call of synthesizeFindings or getOpportunityRecommendation that threw.
LegacyThrew(op, error) == [op |-> op, stage |-> "threw", error |-> error, agents |-> 0]

\* synthesizeFindings up to the await of the synthesis agent, or its throw.
\* One caller issues these calls, one at a time.
SynthesizeFindings ==
  /\ legacyTask # "none"
  /\ legacyCall.stage # "call"
  /\ legacyCall' =
       IF NoSubagents(legacyGen)
       THEN LegacyThrew("synthesize", "No subagents found")
       ELSE IF CompletedAgents(legacySubAgents) = {}
       THEN LegacyThrew("synthesize", "No completed subagent research to synthesize")
       ELSE [op |-> "synthesize", stage |-> "call", error |-> "none",
             agents |-> Cardinality(CompletedAgents(legacySubAgents))]
  /\ UNCHANGED <<legacyTask, legacyGen, legacySubAgents, legacyRun, legacyPc,
                 legacyAttempts, legacySyntheses, OutsideLegacy>>

\* The synthesis agent settles: "this.syntheses.set(taskId, synthesis)" and
\* the return, or its error leaves synthesizeFindings.
FindingsSynthesized(ok) ==
  /\ legacyCall.stage = "call"
  /\ IF ok
     THEN /\ legacySyntheses' = "stored"
          /\ legacyCall' = [legacyCall EXCEPT !.stage = "returned", !.agents = 0]
     ELSE /\ legacyCall' = LegacyThrew("synthesize", "service")
          /\ UNCHANGED legacySyntheses
  /\ UNCHANGED <<legacyTask, legacyGen, legacySubAgents, legacyRun, legacyPc,
                 legacyAttempts, OutsideLegacy>>

\* getOpportunityRecommendation: the recommendation of the stored synthesis
\* (parseSynthesisResponse always sets one), or the throw.
GetOpportunityRecommendation ==
  /\ legacyTask # "none"
  /\ legacyCall.stage # "call"
  /\ legacyCall' =
       IF legacySyntheses = "none"
       THEN LegacyThrew("recommend", "No synthesis found")
       ELSE [op |-> "recommend", stage |-> "returned", error |-> "none", agents |-> 0]
  /\ UNCHANGED <<legacyTask, legacyGen, legacySubAgents, legacyRun, legacyPc,
                 legacyAttempts, legacySyntheses, OutsideLegacy>>

InitLegacy ==
  /\ now = 0
  /\ maxRequests = 1
  /\ IdleRL /\ IdleSys /\ IdleBatch /\ IdleLegacy /\ IdleSess /\ IdleHint /\ IdleTool
  /\ numDimensions = 0

NextLegacy ==
  \/ CreateResearchTask
  \/ \E k \in 0..MaxLegacyUnits : InitializeSubagents(k)
  \/ \E r \in Runs : \E mode \in {"parallel", "sequential"} : RunSubagentResearch(r, mode)
  \/ \E r \in Runs : \E u \in LegacyUnits : LegacyAdmitted(r, u)
  \/ \E r \in Runs : \E u \in LegacyUnits :
       \E answer \in {"ok", "rate_limit", "error"} : LegacyAnswered(r, u, answer)
  \/ \E r \in Runs : \E u \in LegacyUnits : LegacyBackoffOver(r, u)

SpecLegacy == InitLegacy /\ [][NextLegacy]_vars

\* The legacy workflow with the calls that follow the research.
NextOrder ==
  \/ NextLegacy
  \/ SynthesizeFindings
  \/ \E ok \in BOOLEAN : FindingsSynthesized(ok)
  \/ GetOpportunityRecommendation

SpecOrder == InitLegacy /\ [][NextOrder]_vars

(***************************************************************************)
(* Part 6 (SpecHint): suggestTemplate of research-templates.ts, a pure     *)
(* function of the initial description.  A description is modelled by the  *)
(* set of the words it is made of.                                         *)
(***************************************************************************)

\* Object.entries(keywords): the domains in the order they are declared.
Domains ==
  <<"market_research", "academic_research", "competitive_analysis",
    "technology_assessment">>

\* const keywords = {...}
Keywords ==
  [market_research |->
     {"market", "customers", "competition", "opportunity", "demand", "growth"},
   academic_research |->
     {"literature", "research", "theory", "study", "academic", "papers"},
   competitive_analysis |->
     {"competitors", "competitive", "rivalry", "positioning", "strategy"},
   technology_assessment |->
     {"technology", "technical", "software", "platform", "tool", "system"}]

\* The words descriptions are made of.
Vocabulary ==
  {"Market", "growth", "demand", "literature", "research", "studies",
   "competitors", "ecosystem"}

\* description.toLowerCase(), word by word.
LowerCase(word) == IF word = "Market" THEN "market" ELSE word

\* text.includes(keyword) for a lower-case word of the vocabulary: the
\* keyword is the word, or a part of it ("system" of "ecosystem"; "study" is
\* no part of "studies").
Includes(word, keyword) ==
  keyword = word \/ (word = "ecosystem" /\ keyword = "system")

\* domainKeywords.filter(keyword => lowercaseDesc.includes(keyword)).length
Score(desc, domain) ==
  Cardinality({k \in Keywords[domain] : \E w \in desc : Includes(LowerCase(w), k)})

\* "let bestMatch" before the loop: undefined.
NoMatch == [domain |-> "none", score |-> 0]

\* "if (score > 0 && (!bestMatch || score > bestMatch.score))"
BetterOrEqual(score, best) ==
  score > 0 /\ (best.domain = "none" \/ score >= best.score)

Better(score, best) ==
  score > 0 /\ (best.domain = "none" \/ score > best.score)

\* The for loop over the domains from position i with bestMatch = best.
RECURSIVE BestFrom(_, _, _)
BestFrom(desc, i, best) ==
  IF i > Len(Domains) THEN best
  ELSE LET score == Score(desc, Domains[i]) IN
       BestFrom(desc, i + 1,
                IF Better(score, best)
                THEN [domain |-> Domains[i], score |-> score] ELSE best)

\* suggestTemplate(description): "return bestMatch?.domain", "none" for
\* undefined.
SuggestTemplate(desc) == BestFrom(desc, 1, NoMatch).domain

\* suggestTemplate is called with the description.
SuggestTemplateCalled ==
  /\ suggested = "pending"
  /\ suggested' = SuggestTemplate(description)
  /\ UNCHANGED <<description, OutsideHint>>

InitHint ==
  /\ now = 0
  /\ maxRequests = 1
  /\ IdleRL /\ IdleSys /\ IdleBatch /\ IdleLegacy /\ IdleSess /\ IdleTool
  /\ numDimensions = 0
  /\ description \in SUBSET Vocabulary
  /\ suggested = "pending"

NextHint == SuggestTemplateCalled

SpecHint == InitHint /\ [][NextHint]_vars

(***************************************************************************)
(* Part 5: ConfigurationWizard.  Every tool call is a chain of             *)
(* continuations; what runs between two awaits is one step.  The session   *)
(* is looked up and its status tested once, when the call begins.  The     *)
(* RateLimiter of the wizard is represented by what SpecRL establishes of  *)
(* it: waitIfNeeded() returns (action SessAdmitted).                       *)
(***************************************************************************)

\* The fields of the extraction that continueConfiguration asks for.
ExtractionFields ==
  {"domain", "audience", "perspective", "dimensions", "outputFormat", "constraints"}

\* What the extraction carries for a field: nothing, an empty value ("", []
\* or {}), or one of two values.
FieldValues == {"absent", "empty", "a", "b"}

\* The JSON objects an extraction call returns: isComplete and at most one
\* of the fields.
Extractions ==
  {[domain       |-> IF f = "domain" THEN v ELSE "absent",
    audience     |-> IF f = "audience" THEN v ELSE "absent",
    perspective  |-> IF f = "perspective" THEN v ELSE "absent",
    dimensions   |-> IF f = "dimensions" THEN v ELSE "absent",
    outputFormat |-> IF f = "outputFormat" THEN v ELSE "absent",
    constraints  |-> IF f = "constraints" THEN v ELSE "absent",
    isComplete   |-> c] : f \in ExtractionFields, v \in FieldValues, c \in BOOLEAN}

\* "if (extractedJson.domain)", "if (extractedJson.audience?.length)": an
\* absent field, an empty string and an empty array are skipped.
Truthy(v) == v \notin {"absent", "empty"}

\* "if (extractedJson.constraints)": any object, {} included, is truthy.
ObjectTruthy(v) == v # "absent"

\* The "Update configuration" block of continueConfiguration.
MergeExtraction(config, x) ==
  [config EXCEPT
     !.domain = IF Truthy(x.domain) THEN x.domain ELSE @,
     !.audience = IF Truthy(x.audience) THEN x.audience ELSE @,
     !.perspective = IF Truthy(x.perspective) THEN x.perspective ELSE @,
     !.outputFormat = IF Truthy(x.outputFormat) THEN x.outputFormat ELSE @,
     !.constraints = IF ObjectTruthy(x.constraints) THEN x.constraints ELSE @]

\* state.extractedConfig as startConfiguration builds it.
InitialConfigTopicOfDomain(initialDescription, suggestedDomain) ==
  [topic |-> suggestedDomain,
   domain |-> IF suggestedDomain = "none" THEN "custom" ELSE suggestedDomain,
   audience |-> "empty", perspective |-> "empty", dimensions |-> "empty",
   outputFormat |-> "synthesis", constraints |-> "absent", qualityChecks |-> "empty"]

InitialConfig(initialDescription, suggestedDomain) ==
  [topic |-> initialDescription,
   domain |-> IF suggestedDomain = "none" THEN "custom" ELSE suggestedDomain,
   audience |-> "empty", perspective |-> "empty", dimensions |-> "empty",
   outputFormat |-> "synthesis", constraints |-> "absent", qualityChecks |-> "empty"]

\* The initial descriptions sessions are started with, and their words: one
\* matches no keyword, one matches keywords of market_research.
InitialDescriptions == {"studies", "Market growth"}

Words(text) == IF text = "Market growth" THEN {"Market", "growth"} ELSE {text}

\* "if (!state || state.status !== 'active') throw ..."
AnySession(sid) == sid \in DOMAIN conversations

SessionActive(sid) ==
  sid \in DOMAIN conversations /\ conversations[sid].status = "active"

\* "if (!state) throw new Error('Session not found')"
FoundOnlyActive(sid) ==
  sid \in DOMAIN conversations /\ conversations[sid].status = "active"

SessionFound(sid) == sid \in DOMAIN conversations

\* A tool call slot is free; the slots are taken in order.
Free(p) == sessOp[p].stage \in {"idle", "returned", "threw"}

MayBegin(p) == Free(p) /\ \A q \in SessProcs : q < p => ~Free(q)

Turn(role, content) == [role |-> role, content |-> content]

\* state.turns.push(...) on session sid.
PushTurnNone(convs, sid, turn) == convs

PushTurnAll(convs, sid, turn) ==
  [s \in DOMAIN convs |-> [convs[s] EXCEPT !.turns = Append(@, turn)]]

PushTurn(convs, sid, turn) ==
  [convs EXCEPT ![sid].turns = Append(@, turn)]

\* The error leaves the tool call.
Throw(p, error) == [sessOp[p] EXCEPT !.stage = "threw", !.error = error]

\* startConfiguration up to "await this.rateLimiter.waitIfNeeded()": the
\* session is stored in conversations before anything is awaited.
StartConfiguration(p, initialDescription) ==
  /\ MayBegin(p)
  /\ Len(conversations) < MaxSessions
  /\ opCount < MaxOps
  /\ opCount' = opCount + 1
  /\ LET suggestedDomain == SuggestTemplate(Words(initialDescription)) IN
     conversations' = Append(conversations,
        [turns |-> <<Turn("user", initialDescription)>>,
         extractedConfig |-> InitialConfig(initialDescription, suggestedDomain),
         suggestedTemplate |-> suggestedDomain,
         status |-> "active"])
  /\ sessOp' = [sessOp EXCEPT ![p] =
        [NoOp EXCEPT !.op = "start", !.sid = Len(conversations) + 1, !.stage = "wait"]]
  /\ UNCHANGED <<known, configs, OutsideSess>>

\* continueConfiguration up to its waitIfNeeded(), or its throw.  The caller
\* passes a session id it was given, or one that no session has (0).
ContinueConfiguration(p, sid) ==
  /\ MayBegin(p)
  /\ sid \in known \cup {0}
  /\ opCount < MaxOps
  /\ opCount' = opCount + 1
  /\ IF SessionActive(sid)
     THEN /\ conversations' = PushTurn(conversations, sid, Turn("user", "userResponse"))
          /\ sessOp' = [sessOp EXCEPT ![p] =
                [NoOp EXCEPT !.op = "continue", !.sid = sid, !.stage = "wait"]]
     ELSE /\ sessOp' = [sessOp EXCEPT ![p] =
                [NoOp EXCEPT !.op = "continue", !.sid = sid, !.stage = "threw",
                             !.error = "Invalid or expired session"]]
          /\ UNCHANGED conversations
  /\ UNCHANGED <<known, configs, OutsideSess>>

\* waitIfNeeded() returns to the tool call, which issues the call it gates.
SessAdmitted(p) ==
  /\ sessOp[p].stage = "wait"
  /\ sessOp' = [sessOp EXCEPT ![p] =
        [@ EXCEPT !.stage = IF sessOp[p].op = "continue" THEN "response" ELSE "call",
                  !.admits = @ + 1, !.calls = @ + 1]]
  /\ UNCHANGED <<conversations, known, configs, opCount, OutsideSess>>

\* The call of startConfiguration is answered: the reply is appended and the
\* session id returned, or the error leaves startConfiguration.
StartAnswered(p, ok) ==
  /\ sessOp[p].op = "start" /\ sessOp[p].stage = "call"
  /\ IF ok
     THEN /\ conversations' = PushTurn(conversations, sessOp[p].sid, Turn("assistant", "reply"))
          /\ known' = known \cup {sessOp[p].sid}
          /\ sessOp' = [sessOp EXCEPT ![p].stage = "returned"]
     ELSE /\ sessOp' = [sessOp EXCEPT ![p] = Throw(p, "service")]
          /\ UNCHANGED <<conversations, known>>
  /\ UNCHANGED <<configs, opCount, OutsideSess>>

\* The response call of continueConfiguration is answered: the response is
\* appended and the extraction call issued, with no waitIfNeeded().
ResponseAnswered(p, ok) ==
  /\ sessOp[p].op = "continue" /\ sessOp[p].stage = "response"
  /\ IF ok
     THEN /\ conversations' = PushTurn(conversations, sessOp[p].sid, Turn("assistant", "response"))
          /\ sessOp' = [sessOp EXCEPT ![p] = [@ EXCEPT !.stage = "extraction", !.calls = @ + 1]]
     ELSE /\ sessOp' = [sessOp EXCEPT ![p] = Throw(p, "service")]
          /\ UNCHANGED conversations
  /\ UNCHANGED <<known, configs, opCount, OutsideSess>>

\* "if (configComplete) { state.status = 'completed' }"
StatusCompletedAnyway(status, isComplete) == "completed"

StatusAbandoned(status, isComplete) == IF isComplete THEN "completed" ELSE "abandoned"

StatusAfter(status, isComplete) == IF isComplete THEN "completed" ELSE status

\* The configurations built so far when the merge has run on session sid.  A
\* configuration holds the audience array and the constraints object of the
\* snapshot it was built from; the merge assigns new values to the
\* properties of the snapshot and writes nothing into the old values.
ConfigsWrittenThrough(cfgs, sid, x) ==
  [i \in DOMAIN cfgs |->
     IF cfgs[i].session = sid
     THEN [cfgs[i] EXCEPT
             !.audience = IF Truthy(x.audience) THEN x.audience ELSE @,
             !.constraints = IF ObjectTruthy(x.constraints) THEN x.constraints ELSE @]
     ELSE cfgs[i]]

ConfigsAfterMerge(cfgs, sid, x) == cfgs

\* The extraction call is answered with the JSON object x: the merge, the
\* status and the return.
ExtractionParsed(p, x) ==
  /\ sessOp[p].op = "continue" /\ sessOp[p].stage = "extraction"
  /\ conversations' = [conversations EXCEPT ![sessOp[p].sid] =
        [@ EXCEPT !.extractedConfig = MergeExtraction(@, x),
                  !.status = StatusAfter(@, x.isComplete)]]
  /\ configs' = ConfigsAfterMerge(configs, sessOp[p].sid, x)
  /\ sessOp' = [sessOp EXCEPT ![p] = [@ EXCEPT !.stage = "returned", !.complete = x.isComplete]]
  /\ UNCHANGED <<known, opCount, OutsideSess>>

\* The extraction call is answered with text that JSON.parse rejects (the
\* catch returns configComplete false), or with an error.
ExtractionUnparsedFails(p, ok) ==
  /\ sessOp[p].op = "continue" /\ sessOp[p].stage = "extraction"
  /\ sessOp' = [sessOp EXCEPT ![p] = Throw(p, "service")]
  /\ UNCHANGED <<conversations, known, configs, opCount, OutsideSess>>

ExtractionUnparsed(p, ok) ==
  /\ sessOp[p].op = "continue" /\ sessOp[p].stage = "extraction"
  /\ sessOp' = [sessOp EXCEPT ![p] =
        IF ok THEN [@ EXCEPT !.stage = "returned"] ELSE Throw(p, "service")]
  /\ UNCHANGED <<conversations, known, configs, opCount, OutsideSess>>

\* The quality checks of generateResearchPlan: those of the template of the
\* hint, whether or not the domain still matches it, or the three defaults.
QualityChecks(sid) ==
  IF conversations[sid].suggestedTemplate # "none" THEN "template" ELSE "default"

\* The configuration generateResearchPlan builds from the session, with the
\* dimensions it has obtained; "id: randomUUID()" is an identifier that no
\* stored configuration has.
BuildConfigSameId(sid, dimensions) ==
  LET c == conversations[sid].extractedConfig IN
  [id |-> 1, session |-> sid, topic |-> c.topic, domain |-> c.domain,
   audience |-> c.audience, perspective |-> c.perspective,
   constraints |-> c.constraints, dimensions |-> dimensions,
   outputFormat |-> c.outputFormat, qualityChecks |-> QualityChecks(sid)]

BuildConfig(sid, dimensions) ==
  LET c == conversations[sid].extractedConfig IN
  [id |-> Len(configs) + 1,
   session |-> sid,
   topic |-> c.topic,
   domain |-> c.domain,
   audience |-> IF c.audience = "absent" THEN "general" ELSE c.audience,
   perspective |-> IF Truthy(c.perspective) THEN c.perspective ELSE "balanced",
   constraints |-> c.constraints,
   dimensions |-> dimensions,
   outputFormat |-> IF Truthy(c.outputFormat) THEN c.outputFormat ELSE "synthesis",
   qualityChecks |-> QualityChecks(sid)]

\* "template && state.extractedConfig?.context?.domain === template.domain"
UsesTemplate(sid) ==
  /\ conversations[sid].suggestedTemplate # "none"
  /\ conversations[sid].extractedConfig.domain = conversations[sid].suggestedTemplate

\* generateResearchPlan: the throw, the template's dimensions and the stored
\* configuration, or generateCustomDimensions up to its waitIfNeeded().
GenerateResearchPlan(p, sid) ==
  /\ MayBegin(p)
  /\ sid \in known \cup {0}
  /\ opCount < MaxOps
  /\ opCount' = opCount + 1
  /\ IF ~SessionFound(sid)
     THEN /\ sessOp' = [sessOp EXCEPT ![p] =
                [NoOp EXCEPT !.op = "finalize", !.sid = sid, !.stage = "threw",
                             !.error = "Session not found"]]
          /\ UNCHANGED configs
     ELSE /\ IF UsesTemplate(sid)
             THEN /\ configs' = Append(configs, BuildConfig(sid, "template"))
                  /\ sessOp' = [sessOp EXCEPT ![p] =
                        [NoOp EXCEPT !.op = "finalize", !.sid = sid, !.stage = "returned"]]
             ELSE /\ sessOp' = [sessOp EXCEPT ![p] =
                        [NoOp EXCEPT !.op = "finalize", !.sid = sid, !.stage = "wait"]]
                  /\ UNCHANGED configs
  /\ UNCHANGED <<conversations, known, OutsideSess>>

\* The dimensions generateCustomDimensions returns for the text of the
\* completion: the mapped array, which is empty for "[]", or the fallback
\* dimensions when JSON.parse or "dimensions.map" throws.
CustomDimensions(text) ==
  CASE text = "array" -> "custom"
    [] text = "emptyArray" -> "empty"
    [] text \in {"value", "text"} -> "fallback"

\* The call of generateCustomDimensions is answered with a text, and the
\* configuration is built and stored, or with an error.
DimensionsAnswered(p, answer) ==
  /\ sessOp[p].op = "finalize" /\ sessOp[p].stage = "call"
  /\ IF answer = "error"
     THEN /\ sessOp' = [sessOp EXCEPT ![p] = Throw(p, "service")]
          /\ UNCHANGED configs
     ELSE /\ configs' = Append(configs, BuildConfig(sessOp[p].sid, CustomDimensions(answer)))
          /\ sessOp' = [sessOp EXCEPT ![p].stage = "returned"]
  /\ UNCHANGED <<conversations, known, opCount, OutsideSess>>

InitSess ==
  /\ now = 0
  /\ maxRequests = 1
  /\ IdleRL /\ IdleSys /\ IdleBatch /\ IdleLegacy /\ IdleSess /\ IdleHint /\ IdleTool
  /\ numDimensions = 0

NextSess ==
  \/ \E p \in SessProcs : \E text \in InitialDescriptions : StartConfiguration(p, text)
  \/ \E p \in SessProcs : \E sid \in {0} \cup SessionIds : ContinueConfiguration(p, sid)
  \/ \E p \in SessProcs : \E sid \in {0} \cup SessionIds : GenerateResearchPlan(p, sid)
  \/ \E p \in SessProcs : SessAdmitted(p)
  \/ \E p \in SessProcs : \E ok \in BOOLEAN : StartAnswered(p, ok)
  \/ \E p \in SessProcs : \E ok \in BOOLEAN : ResponseAnswered(p, ok)
  \/ \E p \in SessProcs : \E x \in Extractions : ExtractionParsed(p, x)
  \/ \E p \in SessProcs : \E ok \in BOOLEAN : ExtractionUnparsed(p, ok)
  \/ \E p \in SessProcs :
       \E answer \in {"array", "emptyArray", "value", "text", "error"} :
         DimensionsAnswered(p, answer)

SpecSess == InitSess /\ [][NextSess]_vars

(***************************************************************************)
(* Part 7 (SpecTool): the CallToolRequestSchema handler of index.ts.  The  *)
(* whole switch is inside one try; every manager operation is awaited      *)
(* there.  A request is a tool name, arguments that are present or not,    *)
(* and what the manager operation does when it is called.                  *)
(***************************************************************************)

\* The cases of the switch.
ToolNames ==
  {"configureResearch", "continueConfiguration", "generateResearchPlan",
   "runFlexibleResearch", "createResearchTask", "defineEvaluationAreas",
   "initializeSubagents", "runSubagentResearch", "synthesizeFindings",
   "getOpportunityRecommendation"}

\* The messages of the errors the operation behind a tool throws; "service"
\* stands for a failure of the completion service.
ErrorMessages(name) ==
  CASE name = "configureResearch" -> {"service"}
    [] name = "continueConfiguration" -> {"Invalid or expired session", "service"}
    [] name = "generateResearchPlan" -> {"Session not found", "service"}
    [] name = "runFlexibleResearch" -> {"Config not found", "service"}
    [] name = "createResearchTask" -> {}
    [] name \in {"defineEvaluationAreas", "initializeSubagents"} -> {"Task not found"}
    [] name = "runSubagentResearch" -> {"No subagents found"}
    [] name = "synthesizeFindings" ->
         {"No subagents found", "No completed subagent research to synthesize", "service"}
    [] name = "getOpportunityRecommendation" ->
         {"No synthesis found", "No recommendation available"}

\* What the awaited manager operation does: it returns, it throws an Error
\* with a message, or it throws a value that is not an Error.
Outcomes(name) ==
  {[kind |-> "returned", message |-> "none"], [kind |-> "threwValue", message |-> "none"]}
    \cup {[kind |-> "threwError", message |-> m] : m \in ErrorMessages(name)}

\* "catch (error) { return { content: [{ type: 'text', text: `Error: ${...}` }] } }"
HandlerRethrow(raised) == [throws |-> TRUE, text |-> <<>>]

HandlerCatch(raised) ==
  [throws |-> FALSE,
   text |-> <<"Error: ",
              IF raised.kind = "threwError" THEN raised.message ELSE "Unknown error">>]

\* "return { content: [{ type: 'text', text: JSON.stringify(...) }] }"
HandlerReturn == [throws |-> FALSE, text |-> <<"{", "result">>]

\* The response to what the try block ended with.
ToolRespond(ended) ==
  IF ended.kind = "returned" THEN HandlerReturn ELSE HandlerCatch(ended)

\* What the handler does with a response.
Responded(response) ==
  /\ toolStage' = IF response.throws THEN "threw" ELSE "responded"
  /\ toolResponse' = response.text

\* The handler runs up to its first await: the default branch throws
\* "Unknown tool", destructuring arguments that are undefined throws a
\* TypeError, otherwise the manager operation is awaited.
ToolCalled ==
  /\ toolStage = "pending"
  /\ IF toolCall.name \notin ToolNames
     THEN Responded(ToolRespond([kind |-> "threwError", message |-> "Unknown tool"]))
     ELSE IF ~toolCall.hasArguments
     THEN Responded(ToolRespond([kind |-> "threwError", message |-> "TypeError"]))
     ELSE toolStage' = "awaiting" /\ UNCHANGED toolResponse
  /\ UNCHANGED <<toolCall, OutsideTool>>

\* The awaited manager operation settles.
ManagerSettled ==
  /\ toolStage = "awaiting"
  /\ Responded(ToolRespond(toolCall.outcome))
  /\ UNCHANGED <<toolCall, OutsideTool>>

InitTool ==
  /\ now = 0
  /\ maxRequests = 1
  /\ IdleRL /\ IdleSys /\ IdleBatch /\ IdleLegacy /\ IdleSess /\ IdleHint
  /\ numDimensions = 0
  /\ \E name \in ToolNames \cup {"unknownTool"} : \E hasArguments \in BOOLEAN :
       \E settles \in IF name \in ToolNames /\ hasArguments
                       THEN Outcomes(name) ELSE {NoOutcome} :
         toolCall = [name |-> name, hasArguments |-> hasArguments, outcome |-> settles]
  /\ toolStage = "pending"
  /\ toolResponse = <<>>

NextTool == ToolCalled \/ ManagerSettled

SpecTool == InitTool /\ [][NextTool]_vars

(***************************************************************************)
(* Claims about the RateLimiter (SpecRL, LiveSpecRL)                       *)
(***************************************************************************)

\* The recorded admissions whose timestamp lies in the interval (lo, hi].
AdmissionsIn(lo, hi) ==
  {i \in DOMAIN admitted : lo < admitted[i].at /\ admitted[i].at <= hi}

\* The recorded admissions that have not expired at instant t.
Unexpired(t) == {i \in DOMAIN admitted : t - admitted[i].at < windowMs}

\* C1: under every interleaving of callers, the admissions ever recorded never
\* include more than maxRequests timestamps inside a sliding interval of
\* length windowMs (any such interval lies in the one that ends at its latest
\* timestamp).
C1_SlidingWindowLimit ==
  \A i \in DOMAIN admitted :
    Cardinality(AdmissionsIn(admitted[i].at - windowMs, admitted[i].at)) <= maxRequests

\* More admissions than slots have been recorded, so the limit has shaped them.
C1_Witness ==
  /\ Len(admitted) > maxRequests
  /\ \E i \in DOMAIN admitted : admitted[i].at > 0 /\ admitted[i].seen > 0

\* C2: the admission decision is atomic: every admission observed fewer than
\* maxRequests occupied slots, two admissions recorded at the same instant
\* never observed the same number of occupied slots (the same free slot), and
\* once the last free slot has been taken at an instant the limit is reached
\* for every other caller evaluating at that instant.
C2_AtomicDecision ==
  /\ \A i \in DOMAIN admitted : admitted[i].seen < maxRequests
  /\ \A i, j \in DOMAIN admitted :
       (i # j /\ admitted[i].at = admitted[j].at) => admitted[i].seen # admitted[j].seen
  /\ (\E i \in DOMAIN admitted : admitted[i].at = now /\ admitted[i].seen = maxRequests - 1)
       => LimitReached(Purge(requestTimes, now))

\* Exactly one slot was free, two callers evaluated at the same instant: one
\* recorded the admission, the other is suspended.
C2_Witness ==
  \E i \in DOMAIN admitted : \E c \in Callers :
    /\ admitted[i].seen = maxRequests - 1
    /\ c # admitted[i].caller
    /\ callAt[c] = admitted[i].at
    /\ callAt[admitted[i].caller] = admitted[i].at
    /\ pc[c] = "waiting"

\* C5: every waitIfNeeded() call eventually returns with its admission
\* recorded, provided timers fire and the clock runs (LiveSpecRL).
C5_EventuallyAdmitted ==
  \A c \in Callers : (callAt[c] >= 0) ~> (pc[c] = "admitted")

\* Every caller has returned and one of them had to be suspended on the way.
C5_Witness ==
  /\ \A c \in Callers : pc[c] = "admitted"
  /\ \E c \in Callers : waits[c] >= 1

\* C6: a woken caller repeats the whole check with a fresh clock reading: it
\* records an admission (stamped with the current instant) only if fewer than
\* maxRequests unexpired admissions exist at that instant, and otherwise
\* suspends again without recording anything.
C6_RecheckAfterWake ==
  [][\A c \in Callers :
      /\ (pc[c] = "waiting" /\ pc'[c] = "admitted") =>
            /\ Cardinality(Unexpired(now)) < maxRequests
            /\ admitted' = Append(admitted,
                  [caller |-> c, at |-> now, seen |-> Cardinality(Unexpired(now))])
      /\ (pc[c] = "waiting" /\ pc'[c] = "waiting" /\ wakeAt'[c] # wakeAt[c]) =>
            /\ Cardinality(Unexpired(now)) >= maxRequests
            /\ now >= wakeAt[c]
            /\ admitted' = admitted]_vars

\* A caller found the freed slot taken after waking, suspended a second time
\* and was admitted in the end.
C6_Witness == \E c \in Callers : waits[c] >= 2 /\ pc[c] = "admitted"

\* C7: with maxRequests = 2, when the first three calls are issued at t = 0 the
\* first two are admitted at once with timestamp 0, the third suspends with a
\* timer due at windowMs + Buffer (1100 ms) and is never admitted before
\* windowMs (1000 ms); if nobody else takes the freed slot it is admitted on
\* its first re-evaluation.
C7_Scenario ==
  (maxRequests = 2 /\ \A c \in 1..3 : callAt[c] = 0) =>
    /\ pc[1] = "admitted" /\ pc[2] = "admitted"
    /\ admitted[1].at = 0 /\ admitted[2].at = 0
    /\ {admitted[1].caller, admitted[2].caller} = {1, 2}
    /\ waits[3] >= 1
    /\ (pc[3] = "waiting" /\ waits[3] = 1) => wakeAt[3] = windowMs + Buffer
    /\ \A i \in DOMAIN admitted :
         admitted[i].caller = 3 => /\ admitted[i].at >= windowMs
                                   /\ (i = 3 => waits[3] = 1)

\* The third call of the scenario has been admitted after its single wait.
C7_Witness ==
  /\ maxRequests = 2 /\ windowMs = 1000
  /\ \A c \in 1..3 : callAt[c] = 0
  /\ pc[3] = "admitted" /\ waits[3] = 1
  /\ \E i \in DOMAIN admitted : admitted[i].caller = 3 /\ admitted[i].at >= 1100

(***************************************************************************)
(* Claims about the call sites (SpecSys)                                   *)
(***************************************************************************)

\* The calls, and the admissions, of process p so far.
CallsBy(p) == {i \in DOMAIN calls : calls[i].by = p}

GrantsBy(p) == {i \in DOMAIN grants : grants[i].by = p}

\* C3: every call to the completion service is preceded by an admission of
\* its own, so no operation has issued more calls than it has been granted
\* admissions.
C3_EveryCallAdmitted ==
  \A p \in Procs : Cardinality(CallsBy(p)) <= Cardinality(GrantsBy(p))

\* C4: the rate limit is global: all components contend on one window, so
\* neither the admissions granted nor the calls issued by the whole process
\* within a trailing interval of length windowMs exceed maxRequests.
C4_GlobalLimit ==
  /\ \A i \in DOMAIN grants :
       Cardinality({j \in DOMAIN grants :
          grants[i].at - windowMs < grants[j].at /\ grants[j].at <= grants[i].at})
            <= maxRequests
  /\ \A i \in DOMAIN calls :
       Cardinality({j \in DOMAIN calls :
          calls[i].at - windowMs < calls[j].at /\ calls[j].at <= calls[i].at})
            <= maxRequests

(***************************************************************************)
(* Claims about the batch run (SpecBatch, LiveSpecBatch)                   *)
(***************************************************************************)

\* runParallelResearch or runSequentialResearch has returned to
\* runFlexibleResearch.
BatchOver == runPc \in {"review", "synthesis", "returned", "threw"}

AllTerminal ==
  /\ Len(subAgents) = numDimensions
  /\ \A u \in DOMAIN subAgents : Terminal(subAgents[u].status)

\* C8: a batch run always terminates and returns with every unit terminal, for
\* every batch size, both modes, every pattern of failures and every value of
\* maxAgents, 0 and negative values included.
C8_BatchTerminates == (runPc # "idle") ~> (BatchOver /\ AllTerminal)

\* C9: failure isolation.  No failure of a unit makes the batch run throw;
\* when the run has returned all units are terminal; a unit is failed exactly
\* when a call made for that unit itself failed, and completed exactly when
\* its own calls were answered; and the step in which a call of unit u fails
\* marks u failed and neither fails another unit nor changes a terminal one.
C9_FailureIsolation ==
  /\ [](/\ runPc # "aborted"
        /\ BatchOver => AllTerminal
        /\ \A u \in DOMAIN subAgents :
             /\ subAgents[u].status = "failed" <=> outcome[u] = "fail"
             /\ subAgents[u].status = "completed" <=> outcome[u] = "ok")
  /\ [][\A u \in DOMAIN subAgents :
          (outcome'[u] = "fail" /\ outcome[u] # "fail") =>
             /\ subAgents'[u].status = "failed"
             /\ \A v \in DOMAIN subAgents \ {u} :
                  /\ subAgents'[v].status = "failed" => subAgents[v].status = "failed"
                  /\ Terminal(subAgents[v].status) => subAgents'[v] = subAgents[v]]_vars

\* The run has returned from a batch in which a unit failed and both an
\* earlier and a later unit completed.
C9_Witness ==
  /\ BatchOver
  /\ \E u, v, w \in DOMAIN subAgents :
       /\ u < v /\ v < w
       /\ subAgents[u].status = "completed"
       /\ subAgents[v].status = "failed"
       /\ subAgents[w].status = "completed"

\* The slice a unit belongs to when the units are cut into consecutive slices
\* of m units.
SliceNo(u, m) == (u - 1) \div m

\* C10: in parallel mode with a cap m >= 1 the current slice is a run of at
\* most m consecutive units, no unit of a later slice has left "pending"
\* before every unit of the earlier slices is terminal, and at most m units
\* are running.
C10_SliceOrder ==
  (executionMode = "parallel" /\ maxConcurrent >= 1) =>
    /\ \A u, v \in DOMAIN subAgents :
         (SliceNo(u, maxConcurrent) < SliceNo(v, maxConcurrent)
            /\ subAgents[v].status # "pending") => Terminal(subAgents[u].status)
    /\ \A u, v \in batch : SliceNo(u, maxConcurrent) = SliceNo(v, maxConcurrent)
    /\ Cardinality(batch) <= maxConcurrent
    /\ Cardinality({u \in DOMAIN subAgents : subAgents[u].status = "running"})
         <= maxConcurrent

\* The second slice of a batch of three units with cap 2 is running.
C10_Witness ==
  /\ executionMode = "parallel" /\ maxConcurrent = 2
  /\ Len(subAgents) = 3
  /\ subAgents[3].status = "running"
  /\ Terminal(subAgents[1].status) /\ Terminal(subAgents[2].status)

\* The units that are running.
Running == {u \in DOMAIN subAgents : subAgents[u].status = "running"}

\* C11: in sequential mode the units run strictly in the order of the batch
\* and one at a time (a unit has left "pending" only when every earlier unit
\* is terminal, and at most one unit is running), and the step in which a
\* unit fails starts the next unit of the batch.
C11_SequentialOrder ==
  /\ [](executionMode = "sequential" =>
          /\ Cardinality(Running) <= 1
          /\ \A u, v \in DOMAIN subAgents :
                (u < v /\ subAgents[v].status # "pending") => Terminal(subAgents[u].status))
  /\ [][executionMode = "sequential" =>
          \A u \in DOMAIN subAgents :
            (subAgents[u].status = "running" /\ subAgents'[u].status = "failed"
               /\ u < Len(subAgents)) => subAgents'[u + 1].status = "running"]_vars

\* In sequential mode the second of three units has failed and the third is
\* running.
C11_Witness ==
  /\ executionMode = "sequential" /\ Len(subAgents) = 3
  /\ subAgents[1].status = "completed"
  /\ subAgents[2].status = "failed"
  /\ subAgents[3].status = "running"

\* ceil(k / m) for m >= 1.
Ceil(k, m) == (k + m - 1) \div m

\* The calls a unit issues when it is run in sequential mode: the research
\* call, and the structuring call unless the research call failed.
ExpectedCalls(u) == IF structuredText[u] = "none" THEN 1 ELSE 2

CallCountsAgree == \A u \in 1..numDimensions : unitCalls[u] = ExpectedCalls(u)

SliceCountAgrees ==
  (executionMode = "parallel" /\ maxConcurrent >= 1)
     => slices = Ceil(numDimensions, maxConcurrent)

\* C13: whatever the mode and the cap, the unit execution of a run ends having
\* issued for every unit of the batch the calls that sequential mode issues for
\* it under the same outcomes (one research call, one structuring call unless
\* the research call failed), and parallel mode with a cap m >= 1 has taken
\* exactly ceil(k / m) slices.
C13_CallParity ==
  (runPc # "idle") ~> (BatchOver /\ CallCountsAgree /\ SliceCountAgrees)

\* C14: runFlexibleResearch on a stored configuration never raises an
\* exception to its caller, whatever fails during unit execution, quality
\* review or synthesis.
C14_NeverThrows == runPc # "threw"

\* C15: a failed unit carries a diagnostic failure reason: some field of the
\* unit other than its status holds information about the failure.
C15_FailureReasonRecorded ==
  \A u \in DOMAIN subAgents :
    subAgents[u].status = "failed" =>
      \/ DOMAIN subAgents[u] # {"status", "results"}
      \/ subAgents[u].results # NoResults

\* C16: a unit whose structuring call returned text that cannot be parsed as
\* the expected structure is completed with the degraded result: raw text in
\* findings, confidence 0.6 and metadata.parseError set.
C16_DegradedResult ==
  \A u \in DOMAIN subAgents :
    structuredText[u] \in {"value", "null", "text"} =>
      /\ subAgents[u].status = "completed"
      /\ subAgents[u].results =
           [findings |-> "raw", confidence |-> FallbackConfidence, parseError |-> TRUE]

\* max(0, ceil(k / m) - 1)
ExpectedPauses(k, m) == IF k = 0 THEN 0 ELSE Ceil(k, m) - 1

\* C30: in parallel mode with a cap m >= 1 a pause begins only when every
\* unit of the slice just run is terminal, a further slice remains and none
\* of its units has started; every slice but the first starts after exactly
\* one pause more; and unit execution ends after max(0, ceil(k / m) - 1)
\* pauses, none of them after the last slice.
C30_PausesBetweenSlices ==
  (executionMode = "parallel" /\ maxConcurrent >= 1 /\ runPc # "idle") =>
    /\ runPc = "slice" => pauses = slices - 1
    /\ runPc = "pause" =>
         /\ pauses = slices
         /\ SliceSettled(subAgents, batch)
         /\ idx + maxConcurrent < Len(subAgents)
         /\ \A u \in DOMAIN subAgents :
              u > idx + maxConcurrent => subAgents[u].status = "pending"
    /\ runPc \in {"review", "synthesis", "returned", "threw"} =>
         pauses = ExpectedPauses(Len(subAgents), maxConcurrent)

\* A run of three units with cap 2 has returned after one pause.
C30_Witness ==
  /\ executionMode = "parallel" /\ maxConcurrent = 2
  /\ Len(subAgents) = 3
  /\ runPc = "returned"
  /\ pauses = 1 /\ slices = 2

(***************************************************************************)
(* Claims about the legacy workflow (SpecLegacy)                           *)
(***************************************************************************)

\* The status changes a unit may make.
AllowedChange(from, to) ==
  \/ from = to
  \/ from = "pending" /\ to = "running"
  \/ from = "running" /\ Terminal(to)

\* C12: the status of every unit is monotonic under every sequence of
\* operations, a repeated run included: a unit only ever goes from pending to
\* running and from running to completed or failed, and a completed or failed
\* unit keeps its status.
C12_StatusMonotonic ==
  [][/\ \A u \in DOMAIN subAgents \cap DOMAIN subAgents' :
          AllowedChange(subAgents[u].status, subAgents'[u].status)
     /\ \A u \in DOMAIN legacySubAgents \cap DOMAIN legacySubAgents' :
          legacySubAgents[u].id = legacySubAgents'[u].id =>
            AllowedChange(legacySubAgents[u].status, legacySubAgents'[u].status)]_vars

(***************************************************************************)
(* Claims about the configuration sessions (SpecSess)                      *)
(***************************************************************************)

\* Tool call p begins in this step with operation op.
Begins(p, op) == MayBegin(p) /\ opCount' = opCount + 1 /\ sessOp'[p].op = op

\* No session has the id, or the session is not active.
Closed(sid) == sid \notin DOMAIN conversations \/ conversations[sid].status # "active"

\* C17: continueConfiguration on a session id that no session has, or on a
\* completed session, throws the session-state error at once: the call has
\* obtained no admission and issued no completion-service call, never gets
\* any, and the step leaves the registry, every session's turns, snapshot and
\* status, and the stored configurations unchanged.
C17_ClosedSessionRejected ==
  /\ [](\A p \in SessProcs :
          sessOp[p].error = "Invalid or expired session" =>
            sessOp[p].stage = "threw" /\ sessOp[p].admits = 0 /\ sessOp[p].calls = 0)
  /\ [][\A p \in SessProcs :
          (Begins(p, "continue") /\ Closed(sessOp'[p].sid)) =>
            /\ sessOp'[p].stage = "threw"
            /\ sessOp'[p].error = "Invalid or expired session"
            /\ sessOp'[p].admits = 0 /\ sessOp'[p].calls = 0
            /\ conversations' = conversations
            /\ known' = known /\ configs' = configs]_vars

\* A continueConfiguration on a completed session has been rejected.
C17_Witness ==
  \E p \in SessProcs :
    /\ sessOp[p].error = "Invalid or expired session"
    /\ sessOp[p].sid \in DOMAIN conversations
    /\ conversations[sessOp[p].sid].status = "completed"

\* An earlier turn has set the field to this value.
IsSet(v) == v \notin {"absent", "empty"}

\* C18: the merge is non-destructive: when a turn's extraction omits a field
\* or carries it empty, a value the snapshot already has for that field is
\* kept; no turn clears a field that was set.
C18_NonDestructiveMerge ==
  [][\A p \in SessProcs :
       (sessOp[p].stage = "extraction" /\ sessOp'[p].stage = "returned") =>
         \A x \in Extractions : \A f \in ExtractionFields :
           (ExtractionParsed(p, x) /\ x[f] \in {"absent", "empty"}
              /\ IsSet(conversations[sessOp[p].sid].extractedConfig[f]))
             => conversations'[sessOp[p].sid].extractedConfig[f]
                  = conversations[sessOp[p].sid].extractedConfig[f]]_vars

\* C19: last extraction wins: every field that a turn's extraction carries
\* (domain, audience, perspective, dimensions, outputFormat, constraints) has
\* the extracted value in the snapshot after the turn.
C19_LastExtractionWins ==
  [][\A p \in SessProcs :
       (sessOp[p].stage = "extraction" /\ sessOp'[p].stage = "returned") =>
         \A x \in Extractions : \A f \in ExtractionFields :
           (ExtractionParsed(p, x) /\ IsSet(x[f])) => conversations'[sessOp[p].sid].extractedConfig[f] = x[f]]_vars

\* Tool call p, a continueConfiguration on session sid, returns in this step
\* with the given completion flag.
TurnReturns(p, sid, complete) ==
  /\ sessOp[p].op = "continue" /\ sessOp[p].sid = sid
  /\ sessOp[p].stage = "extraction"
  /\ sessOp'[p].stage = "returned" /\ sessOp'[p].complete = complete

\* C20: a session is created active, no session leaves the registry, its
\* status is active or completed, and its status changes only from active to
\* completed, in the step in which a continueConfiguration on it returns with
\* the extraction reporting completeness; every such step leaves the session
\* completed.
C20_StatusTransitions ==
  /\ [](\A sid \in DOMAIN conversations :
          conversations[sid].status \in {"active", "completed"})
  /\ [][/\ \A sid \in DOMAIN conversations :
            /\ sid \in DOMAIN conversations'
            /\ conversations'[sid].status # conversations[sid].status =>
                 /\ conversations[sid].status = "active"
                 /\ conversations'[sid].status = "completed"
                 /\ \E p \in SessProcs : TurnReturns(p, sid, TRUE)
            /\ (\E p \in SessProcs : TurnReturns(p, sid, TRUE)) =>
                 conversations'[sid].status = "completed"
        /\ \A sid \in DOMAIN conversations' \ DOMAIN conversations :
             conversations'[sid].status = "active"]_vars

\* A session has been completed by a turn that followed a turn which left it
\* active.
C20_Witness ==
  \E sid \in DOMAIN conversations : \E p \in SessProcs :
    /\ conversations[sid].status = "completed"
    /\ Len(conversations[sid].turns) >= 6
    /\ sessOp[p].op = "continue" /\ sessOp[p].sid = sid
    /\ sessOp[p].stage = "returned" /\ sessOp[p].complete

\* C21: in every reachable state every session's status is active or
\* completed (none is ever abandoned), and no step removes a session from
\* the registry.
C21_NoAbandonedNoRemoval ==
  /\ []({conversations[sid].status : sid \in DOMAIN conversations}
          \subseteq {"active", "completed"})
  /\ [][DOMAIN conversations \subseteq DOMAIN conversations']_vars

\* A completed session and an active one are in the registry after a tool
\* call has failed.
C21_Witness ==
  /\ \E s1, s2 \in DOMAIN conversations :
       conversations[s1].status = "completed" /\ conversations[s2].status = "active"
  /\ \E p \in SessProcs : sessOp[p].stage = "threw"

\* A step of the generateResearchPlan call in slot p.
FinalizeStep(p) ==
  \/ Begins(p, "finalize")
  \/ sessOp[p].op = "finalize" /\ ~Free(p) /\ sessOp'[p] # sessOp[p]

\* C22: no step of generateResearchPlan changes any session (status, turns,
\* snapshot), whether the session is active or completed; a call that returns
\* has stored, in the step in which it returns, one more configuration of its
\* session, whose identifier no configuration stored before has.
C22_FinalizeFrame ==
  /\ [](\A i, j \in DOMAIN configs : configs[i].id = configs[j].id => i = j)
  /\ [][\A p \in SessProcs :
          FinalizeStep(p) =>
            /\ conversations' = conversations
            /\ IF sessOp'[p].stage = "returned"
               THEN /\ Len(configs') = Len(configs) + 1
                    /\ SubSeq(configs', 1, Len(configs)) = configs
                    /\ configs'[Len(configs')].session = sessOp'[p].sid
                    /\ \A i \in DOMAIN configs :
                         configs[i].id # configs'[Len(configs')].id
               ELSE configs' = configs]_vars

\* Two generateResearchPlan calls on one session have returned.
C22_Witness ==
  /\ Len(configs) >= 2
  /\ configs[1].session = configs[2].session
  /\ \E p \in SessProcs : sessOp[p].op = "finalize" /\ sessOp[p].stage = "returned"

\* C23: generateResearchPlan on a session id that no session has throws
\* "Session not found" at once, with no admission, no completion-service call
\* and no configuration stored; on a session that exists, active or completed,
\* the call is not rejected.
C23_FinalizeNeedsSession ==
  /\ [](\A p \in SessProcs :
          sessOp[p].error = "Session not found" =>
            sessOp[p].stage = "threw" /\ sessOp[p].admits = 0 /\ sessOp[p].calls = 0)
  /\ [][\A p \in SessProcs :
          Begins(p, "finalize") =>
            IF sessOp'[p].sid \in DOMAIN conversations
            THEN sessOp'[p].stage \in {"wait", "returned"}
            ELSE /\ sessOp'[p].stage = "threw"
                 /\ sessOp'[p].error = "Session not found"
                 /\ sessOp'[p].admits = 0 /\ sessOp'[p].calls = 0
                 /\ configs' = configs]_vars

\* A generateResearchPlan call on a completed session has gone ahead.
C23_Witness ==
  \E p \in SessProcs :
    /\ sessOp[p].op = "finalize" /\ sessOp[p].stage \in {"wait", "call", "returned"}
    /\ sessOp[p].sid \in DOMAIN conversations
    /\ conversations[sessOp[p].sid].status = "completed"

\* C24: every stored configuration has a non-empty dimension list and a
\* non-empty quality-check list.
C24_DefaultsSubstituted ==
  \A i \in DOMAIN configs :
    configs[i].dimensions # "empty" /\ configs[i].qualityChecks # "empty"

\* C26: startConfiguration puts a new session in the registry, active, with
\* the initial text as topic and as its only turn; when the call returns, the
\* session id is given out for the first time and the session is active with
\* exactly two turns, the user's initial text and the assistant's reply; no
\* step ever changes the topic of a session.
C26_StartCreatesSession ==
  /\ [][\A p \in SessProcs : \A text \in InitialDescriptions :
          StartConfiguration(p, text) =>
            LET sid == sessOp'[p].sid IN
            /\ sid \notin DOMAIN conversations /\ sid \in DOMAIN conversations'
            /\ conversations'[sid].status = "active"
            /\ conversations'[sid].extractedConfig.topic = text
            /\ conversations'[sid].turns = <<Turn("user", text)>>]_vars
  /\ [][\A p \in SessProcs :
          (sessOp[p].op = "start" /\ sessOp[p].stage = "call"
             /\ sessOp'[p].stage = "returned") =>
            LET sid == sessOp[p].sid IN
            /\ sid \notin known /\ sid \in known'
            /\ conversations'[sid].status = "active"
            /\ Len(conversations'[sid].turns) = 2
            /\ conversations'[sid].turns[1]
                 = Turn("user", conversations'[sid].extractedConfig.topic)
            /\ conversations'[sid].turns[2].role = "assistant"]_vars
  /\ [][\A sid \in DOMAIN conversations :
          conversations'[sid].extractedConfig.topic
            = conversations[sid].extractedConfig.topic]_vars

\* A startConfiguration has returned the id of a session that later turns
\* have extended.
C26_Witness ==
  \E sid \in known :
    /\ conversations[sid].extractedConfig.topic = "Market growth"
    /\ Len(conversations[sid].turns) >= 4
    /\ conversations[sid].status = "completed"

\* The sessions a step changes.
Changed == {sid \in DOMAIN conversations : conversations'[sid] # conversations[sid]}

\* C27: a step changes (turns, snapshot, status, hint) at most one session,
\* the session of the tool call that takes the step; a step that creates a
\* session changes no other session.
C27_SessionsIndependent ==
  [][/\ Cardinality(Changed) <= 1
     /\ Len(conversations') # Len(conversations) => Changed = {}
     /\ \A sid \in Changed :
          \E p \in SessProcs :
            /\ sessOp'[p].sid = sid /\ sessOp'[p].op \in {"start", "continue"}
            /\ Begins(p, "continue") \/ sessOp'[p] # sessOp[p]]_vars

\* Two sessions of which one has had a turn and the other has not.
C27_Witness ==
  \E s1, s2 \in known :
    /\ Len(conversations[s1].turns) >= 4
    /\ Len(conversations[s2].turns) = 2

(***************************************************************************)
(* Claims about the legacy workflow (SpecLegacy)                           *)
(***************************************************************************)

\* C28: a logical completion-service call is attempted at most twice: after
\* one rate_limit failure and the backoff it is retried once, and a second
\* rate_limit failure is not retried.
C28_SingleRetry ==
  \A r \in Runs : \A u \in LegacyUnits : legacyAttempts[r][u] <= 2

\* The units of call r whose performResearch is in progress.
InProgress(r) == {u \in LegacyUnits : legacyPc[r][u] \in {"wait", "call", "backoff"}}

\* C29: while a runSubagentResearch call with execution_mode 'sequential'
\* runs, unit i+1 is not running and has no performResearch in progress
\* before unit i is completed or failed.
C29_LegacySequential ==
  \A r \in Runs :
    (legacyRun[r].state = "running" /\ legacyRun[r].mode = "sequential") =>
      \A u \in DOMAIN legacySubAgents :
        (u > 1 /\ (u \in InProgress(r) \/ legacySubAgents[u].status = "running")) =>
          legacySubAgents[u - 1].status \in {"completed", "failed"}

(***************************************************************************)
(* Claims about suggestTemplate (SpecHint)                                 *)
(***************************************************************************)

\* The largest number of keywords of one domain that the description matches.
MaxScore(desc) ==
  CHOOSE n \in 0..6 :
    /\ \A i \in DOMAIN Domains : Score(desc, Domains[i]) <= n
    /\ n = 0 \/ \E i \in DOMAIN Domains : Score(desc, Domains[i]) = n

C31_WindowPurged ==
  /\ [](Len(requestTimes) <= maxRequests)
  /\ [][rlVars' # rlVars =>
          /\ \A i \in DOMAIN requestTimes' : now - requestTimes'[i] < windowMs
          /\ \A c \in Callers :
               (pc'[c] = "waiting" /\ wakeAt'[c] # wakeAt[c]) =>
                 wakeAt'[c] - now > Buffer]_vars

\* A caller has been made to wait a second time, on a full window, after
\* the clock moved.
C31_Witness ==
  \E c \in Callers :
    /\ pc[c] = "waiting" /\ waits[c] >= 2
    /\ Len(requestTimes) = maxRequests
    /\ now > 0

(***************************************************************************)
(* Claims about the tool handler (SpecTool)                                *)
(***************************************************************************)

\* The try block of the handler ended with an error.
ToolFailed ==
  \/ toolCall.name \notin ToolNames
  \/ ~toolCall.hasArguments
  \/ toolCall.outcome.kind \in {"threwError", "threwValue"}

\* C32: the handler never throws; once it has answered a request whose
\* operation raised an error (unknown or closed session, unknown
\* configuration or task, completion-service failure, unknown tool name) the
\* response is a normal one whose text starts with "Error: ", and the text
\* of the response to an operation that returned does not.
C32_HandlerNeverThrows ==
  /\ toolStage # "threw"
  /\ toolStage = "responded" =>
       /\ toolResponse # <<>>
       /\ toolResponse[1] = "Error: " <=> ToolFailed
       /\ toolCall.outcome.kind = "threwError" => toolResponse[2] = toolCall.outcome.message

\* The handler has answered a continueConfiguration that was rejected for a
\* closed session.
C32_Witness ==
  /\ toolStage = "responded"
  /\ toolCall.name = "continueConfiguration"
  /\ toolCall.outcome.message = "Invalid or expired session"
  /\ toolResponse = <<"Error: ", "Invalid or expired session">>

\* The turns of session sid after the step are those before it followed by
\* the given turns.
Appended(sid, turns) == conversations'[sid].turns = conversations[sid].turns \o turns

\* C33: a continueConfiguration on an active session appends the user turn
\* when it begins and the assistant turn when the response call is answered;
\* when the response call or the extraction call fails, the error leaves the
\* call and the step changes no session (status, snapshot and the turns
\* appended so far stay); no step ever removes a turn.
C33_FailedTurnKeepsTurns ==
  /\ [][\A p \in SessProcs :
          (Begins(p, "continue") /\ sessOp'[p].stage = "wait") =>
            Appended(sessOp'[p].sid, <<Turn("user", "userResponse")>>)]_vars
  /\ [][\A p \in SessProcs :
          (sessOp[p].stage = "response" /\ sessOp'[p].stage = "extraction") =>
            Appended(sessOp[p].sid, <<Turn("assistant", "response")>>)]_vars
  /\ [][\A p \in SessProcs :
          (sessOp[p].op = "continue" /\ sessOp[p].stage \in {"response", "extraction"}
             /\ sessOp'[p].stage = "threw") =>
            /\ sessOp'[p].error = "service"
            /\ conversations' = conversations]_vars
  /\ [][\A sid \in DOMAIN conversations :
          \E n \in 0..1 :
            SubSeq(conversations'[sid].turns, 1, Len(conversations'[sid].turns) - n)
              = conversations[sid].turns]_vars

\* After a continueConfiguration failed, an active session holds two
\* consecutive user turns.
C33_Witness ==
  \E p \in SessProcs : \E sid \in DOMAIN conversations :
    /\ sessOp[p].op = "continue" /\ sessOp[p].sid = sid
    /\ sessOp[p].stage = "threw" /\ sessOp[p].error = "service"
    /\ conversations[sid].status = "active"
    /\ \E i \in 1..(Len(conversations[sid].turns) - 1) :
         /\ conversations[sid].turns[i].role = "user"
         /\ conversations[sid].turns[i + 1].role = "user"

\* C34: when the extraction output of a continueConfiguration cannot be
\* parsed, the call returns with completion flag false and the step changes
\* no session: snapshot and status are as before, and the turns are those the
\* call has appended.
C34_UnparsedExtraction ==
  [][\A p \in SessProcs :
       ExtractionUnparsed(p, TRUE) =>
         /\ sessOp'[p].stage = "returned"
         /\ ~sessOp'[p].complete
         /\ sessOp'[p].error = "none"
         /\ conversations' = conversations]_vars

\* A continueConfiguration has returned with completion flag false on a
\* session that is active with its two new turns.
C34_Witness ==
  \E p \in SessProcs :
    /\ sessOp[p].op = "continue" /\ sessOp[p].stage = "returned" /\ ~sessOp[p].complete
    /\ conversations[sessOp[p].sid].status = "active"
    /\ Len(conversations[sessOp[p].sid].turns) = 4
    /\ conversations[sessOp[p].sid].extractedConfig
         = InitialConfig(conversations[sessOp[p].sid].extractedConfig.topic,
                         conversations[sessOp[p].sid].suggestedTemplate)

\* C35: a continueConfiguration that begins on a completed session is
\* rejected when it begins, and neither that step nor any step of a
\* generateResearchPlan on a completed session changes the session's turns
\* or snapshot.
C35_CompletedFrozen ==
  [][\A p \in SessProcs :
       LET sid == sessOp'[p].sid IN
       ((FinalizeStep(p) \/ Begins(p, "continue"))
          /\ sid \in DOMAIN conversations
          /\ conversations[sid].status = "completed") =>
         /\ conversations'[sid] = conversations[sid]
         /\ sessOp'[p].op = "continue" => sessOp'[p].stage = "threw"]_vars

\* A generateResearchPlan has returned a configuration of a completed
\* session.
C35_Witness ==
  \E p \in SessProcs : \E i \in DOMAIN configs :
    /\ sessOp[p].op = "finalize" /\ sessOp[p].stage = "returned"
    /\ configs[i].session = sessOp[p].sid
    /\ conversations[sessOp[p].sid].status = "completed"
    /\ Len(conversations[sessOp[p].sid].turns) = 4

\* C40: a session is in the registry only if its startConfiguration has
\* returned its id or is still running; a startConfiguration whose call
\* failed leaves no session behind.
C40_FailedStartLeavesNoSession ==
  \A sid \in DOMAIN conversations :
    \/ sid \in known
    \/ \E p \in SessProcs :
         /\ sessOp[p].op = "start" /\ sessOp[p].sid = sid
         /\ sessOp[p].stage \in {"wait", "call"}

\* C36: in a run of runFlexibleResearch a unit has results exactly when its
\* status is completed: pending, running and failed units carry none.
C36_ResultsIffCompleted ==
  \A u \in DOMAIN subAgents :
    (subAgents[u].results # NoResults) <=> (subAgents[u].status = "completed")

\* One unit has completed with results, another has failed, a third is
\* still running.
C36_Witness ==
  /\ \E u \in DOMAIN subAgents :
       subAgents[u].status = "completed" /\ subAgents[u].results # NoResults
  /\ \E u \in DOMAIN subAgents : subAgents[u].status = "failed"
  /\ \E u \in DOMAIN subAgents : subAgents[u].status = "running"

\* C37: the task of runFlexibleResearch goes from pending to in_progress to
\* completed and takes no other step; it is completed only when every unit
\* is completed or failed and its synthesis is stored, a synthesis is stored
\* only for a completed task, and when the quality review or the synthesis
\* fails the task stays in_progress with no synthesis stored.
C37_TaskLifecycle ==
  /\ [][taskStatus' # taskStatus =>
          <<taskStatus, taskStatus'>> \in {<<"none", "pending">>,
                                          <<"pending", "in_progress">>,
                                          <<"in_progress", "completed">>}]_vars
  /\ [](taskStatus = "completed" =>
          /\ \A u \in DOMAIN subAgents : Terminal(subAgents[u].status)
          /\ syntheses = "stored")
  /\ [](syntheses = "stored" => taskStatus = "completed")
  /\ [](runPc = "threw" => taskStatus = "in_progress" /\ syntheses = "none")

\* A run over several units, one of them failed, has returned with the task
\* completed.
C37_Witness ==
  /\ runPc = "returned" /\ taskStatus = "completed" /\ syntheses = "stored"
  /\ Len(subAgents) >= 2
  /\ \E u \in DOMAIN subAgents : subAgents[u].status = "failed"

\* The stored task, units and synthesis of the legacy workflow.
LegacyStore == <<legacyTask, legacyGen, legacySubAgents, legacySyntheses>>

\* C39: the legacy calls fail, leaving the stored state as it was, when
\* their predecessor has not happened: runSubagentResearch without stored
\* subagents, synthesizeFindings without a completed unit,
\* getOpportunityRecommendation without a stored synthesis; and a synthesis
\* is stored only by a synthesizeFindings that found a completed unit.
C39_LegacyOrdering ==
  /\ [][\A r \in Runs :
          (legacyRun[r].state = "idle" /\ legacyRun'[r].state # "idle") =>
            IF legacyGen = 0
            THEN legacyRun'[r].state = "threw" /\ LegacyStore' = LegacyStore
            ELSE legacyRun'[r].state # "threw"]_vars
  /\ [][(legacyCall' # legacyCall /\ legacyCall.stage # "call"
           /\ legacyCall'.op = "synthesize") =>
          IF \E u \in DOMAIN legacySubAgents : legacySubAgents[u].status = "completed"
          THEN legacyCall'.stage = "call" /\ legacyCall'.agents >= 1
          ELSE legacyCall'.stage = "threw" /\ LegacyStore' = LegacyStore]_vars
  /\ [][(legacyCall' # legacyCall /\ legacyCall'.op = "recommend") =>
          /\ LegacyStore' = LegacyStore
          /\ legacySyntheses = "none" => legacyCall'.stage = "threw"]_vars
  /\ [][legacySyntheses' # legacySyntheses =>
          /\ legacySyntheses' = "stored"
          /\ legacyCall.op = "synthesize" /\ legacyCall.stage = "call"
          /\ legacyCall.agents >= 1]_vars
  /\ [][legacyCall'.stage = "threw" /\ legacyCall' # legacyCall =>
          LegacyStore' = LegacyStore]_vars

\* After a runSubagentResearch was rejected for want of subagents, a
\* synthesis has been stored and its recommendation returned.
C39_Witness ==
  /\ \E r \in Runs : legacyRun[r].state = "threw"
  /\ legacySyntheses = "stored"
  /\ legacyCall.op = "recommend" /\ legacyCall.stage = "returned"

\* C38: no step of a continueConfiguration changes a configuration that
\* generateResearchPlan has returned: its topic, context, dimensions, output
\* format and quality checks stay as they were built.
C38_ConfigurationImmutable ==
  [][\A p \in SessProcs :
       (sessOp'[p] # sessOp[p] /\ sessOp'[p].op = "continue") =>
         /\ Len(configs') = Len(configs)
         /\ \A i \in DOMAIN configs : configs'[i] = configs[i]]_vars

\* A continueConfiguration has returned on a session after a configuration
\* was built from it, and the snapshot of the session now differs from the
\* configuration in audience or constraints.
C38_Witness ==
  \E p \in SessProcs : \E i \in DOMAIN configs :
    /\ sessOp[p].op = "continue" /\ sessOp[p].stage = "returned"
    /\ configs[i].session = sessOp[p].sid
    /\ \/ IsSet(conversations[sessOp[p].sid].extractedConfig.audience)
            /\ configs[i].audience
                 # conversations[sessOp[p].sid].extractedConfig.audience
       \/ conversations[sessOp[p].sid].extractedConfig.constraints # "absent"
            /\ configs[i].constraints
                 # conversations[sessOp[p].sid].extractedConfig.constraints

====
